---- MODULE Spec2Model ----
(***************************************************************************)
(* Message canonicalizers of the EVVM viem signature library.              *)
(*                                                                         *)
(* The repository carries two implementations of the canonicalizers:       *)
(*   - src/src/utils/constructMessage.ts (built on basicMessageBuilder),   *)
(*     the module the unit tests import; its operators keep the source's   *)
(*     names;                                                              *)
(*   - src/unnamed/part_000 (template literals with a fixed selector);     *)
(*     its operators carry the suffix _p000.                               *)
(*                                                                         *)
(* A JavaScript string is a sequence of one-character strings, so that     *)
(* toLowerCase, toUpperCase, slice, startsWith, BigInt.toString and        *)
(* BigInt.toLocaleString are computed character by character.              *)
(***************************************************************************)
EXTENDS Integers, Sequences, FiniteSets, TLC

VARIABLES
    locale,   \* default locale of the JavaScript runtime (read by toLocaleString)
    phase,    \* "idle" | "called" | "repeated"
    obs,      \* the canonicalizer call observed: file, op, args, result
    again,    \* result of calling the same canonicalizer again with obs.args
    nCalls,   \* number of canonicalizer invocations made so far
    utils,    \* the canonicalizer file the builders' import of '../utils' resolves to
    cur,      \* the builder or executor invocation in progress: method, args
    pc,       \* "idle" | "awaitAction" | "awaitPay" | "awaitWrite" | "done"
    requests, \* signMessage requests of the invocation, in order, with the wallet's replies
    writes,   \* writeContract calls of the invocation, in order, with the chain's replies
    outcome,  \* how the invocation's promise settled
    prev,     \* the previous invocation: cur, requests, writes, outcome
    nInv,     \* number of builder and executor invocations started so far
    builder,  \* the builder instance: its private fields walletClient and account
    other     \* a second invocation in progress on the same builder: cur, pc, requests, outcome

canonVars == <<phase, obs, again, nCalls>>
clientVars == <<utils, cur, pc, requests, writes, outcome, prev, nInv, builder, other>>
vars == <<locale, phase, obs, again, nCalls, utils, cur, pc, requests, writes, outcome, prev, nInv, builder, other>>

(***************************************************************************)
(* Bounds of the model.                                                    *)
(***************************************************************************)
MaxEvvmID == 2
MaxCalls == 2
MaxInvocations == 2

(***************************************************************************)
(* JavaScript values and strings.                                          *)
(***************************************************************************)
Str(s) == [typ |-> "string", str |-> s]
Undefined == [typ |-> "undefined", str |-> <<>>]

Ok(m) == [kind |-> "ok", msg |-> m]
Throw(k) == [kind |-> k, msg |-> <<>>]

UpperLetters == <<"A", "B", "C", "D", "E", "F", "G", "H", "I", "J", "K", "L", "M",
                  "N", "O", "P", "Q", "R", "S", "T", "U", "V", "W", "X", "Y", "Z">>
LowerLetters == <<"a", "b", "c", "d", "e", "f", "g", "h", "i", "j", "k", "l", "m",
                  "n", "o", "p", "q", "r", "s", "t", "u", "v", "w", "x", "y", "z">>

LowerChar(c) ==
    IF \E i \in 1..26 : UpperLetters[i] = c
    THEN LowerLetters[CHOOSE i \in 1..26 : UpperLetters[i] = c]
    ELSE c

UpperChar(c) ==
    IF \E i \in 1..26 : LowerLetters[i] = c
    THEN UpperLetters[CHOOSE i \in 1..26 : LowerLetters[i] = c]
    ELSE c

\* String.prototype.toLowerCase
toLowerCase(s) == [i \in 1..Len(s) |-> LowerChar(s[i])]

\* String.prototype.toUpperCase
toUpperCase(s) == [i \in 1..Len(s) |-> UpperChar(s[i])]

\* String.prototype.slice(start) and slice(start, end), zero-based, end exclusive
sliceFrom(s, start) == SubSeq(s, start + 1, Len(s))
slice(s, start, end) == SubSeq(s, start + 1, IF end < Len(s) THEN end ELSE Len(s))

\* String.prototype.startsWith
startsWith(s, prefix) ==
    /\ Len(prefix) <= Len(s)
    /\ SubSeq(s, 1, Len(prefix)) = prefix

DigitChars == <<"0", "1", "2", "3", "4", "5", "6", "7", "8", "9">>

\* BigInt.prototype.toString(), also what a template literal `${n}` yields
RECURSIVE toString(_)
toString(n) ==
    IF n < 10 THEN <<DigitChars[n + 1]>>
    ELSE toString(n \div 10) \o <<DigitChars[(n % 10) + 1]>>

\* a template literal `${b}` of a boolean, and b ? "true" : "false"
boolString(b) ==
    IF b THEN <<"t", "r", "u", "e">> ELSE <<"f", "a", "l", "s", "e">>

(***************************************************************************)
(* BigInt.prototype.toLocaleString() with no arguments formats the number  *)
(* for the runtime's default locale with grouping: the result depends on   *)
(* the host, so the locale is a state variable fixed at start.  "nbsp"     *)
(* stands for the no-break space that fr-FR puts between groups.           *)
(***************************************************************************)
Locales == {"en-US", "de-DE", "fr-FR"}

GroupSeparator(loc) ==
    CASE loc = "en-US" -> ","
      [] loc = "de-DE" -> "."
      [] loc = "fr-FR" -> "nbsp"

RECURSIVE groupDigits(_, _)
groupDigits(digits, sep) ==
    IF Len(digits) <= 3 THEN digits
    ELSE groupDigits(SubSeq(digits, 1, Len(digits) - 3), sep)
             \o <<sep>> \o SubSeq(digits, Len(digits) - 2, Len(digits))

toLocaleString(n) == groupDigits(toString(n), GroupSeparator(locale))

(***************************************************************************)
(* src/src/utils/constructMessage.ts                                       *)
(***************************************************************************)
Comma == <<",">>

IsString(v) == v.typ = "string"

basicMessageBuilder(evvmID, functionName, inputs) ==
    evvmID \o Comma \o functionName \o Comma \o inputs

constructMessageForDepositFisher(isERC20, receiverAddress, nonce, tokenAddress, priorityFee, ammount) ==
    IF ~IsString(receiverAddress) THEN Throw("TypeError")
    ELSE IF isERC20
    THEN IF ~IsString(tokenAddress) THEN Throw("TypeError")
         ELSE Ok(toLowerCase(receiverAddress.str)
                 \o Comma \o toString(nonce)
                 \o Comma \o toLowerCase(tokenAddress.str)
                 \o Comma \o priorityFee
                 \o Comma \o ammount)
    ELSE Ok(toLowerCase(receiverAddress.str)
            \o Comma \o toString(nonce)
            \o Comma \o priorityFee
            \o Comma \o ammount)

\* buildMessageSignedForPay with the token address spliced in as passed (no toLowerCase)
buildMessageSignedForPay_TokenAsPassed(evvmID, to, tokenAddress, amount, priorityFee, nonce, priorityFlag, executor) ==
    IF ~IsString(to) \/ to.str = <<>> THEN Throw("Error")
    ELSE IF ~IsString(tokenAddress) \/ ~IsString(executor) THEN Throw("TypeError")
    ELSE LET inputs ==
                 (IF startsWith(to.str, <<"0", "x">>) THEN toLowerCase(to.str) ELSE to.str)
                 \o Comma \o tokenAddress.str
                 \o Comma \o toString(amount)
                 \o Comma \o toString(priorityFee)
                 \o Comma \o toString(nonce)
                 \o Comma \o (IF priorityFlag THEN <<"t", "r", "u", "e">>
                                              ELSE <<"f", "a", "l", "s", "e">>)
                 \o Comma \o toLowerCase(executor.str)
         IN  Ok(basicMessageBuilder(toString(evvmID), <<"p", "a", "y">>, inputs))

buildMessageSignedForPay(evvmID, to, tokenAddress, amount, priorityFee, nonce, priorityFlag, executor) ==
    IF ~IsString(to) \/ to.str = <<>> THEN Throw("Error")
    ELSE IF ~IsString(tokenAddress) \/ ~IsString(executor) THEN Throw("TypeError")
    ELSE LET inputs ==
                 (IF startsWith(to.str, <<"0", "x">>) THEN toLowerCase(to.str) ELSE to.str)
                 \o Comma \o toLowerCase(tokenAddress.str)
                 \o Comma \o toString(amount)
                 \o Comma \o toString(priorityFee)
                 \o Comma \o toString(nonce)
                 \o Comma \o (IF priorityFlag THEN <<"t", "r", "u", "e">>
                                              ELSE <<"f", "a", "l", "s", "e">>)
                 \o Comma \o toLowerCase(executor.str)
         IN  Ok(basicMessageBuilder(toString(evvmID), <<"p", "a", "y">>, inputs))

buildMessageSignedForDispersePay(evvmID, hashList, tokenAddress, amount, priorityFee, nonce, priorityFlag, executor) ==
    IF ~IsString(tokenAddress) \/ ~IsString(executor) THEN Throw("TypeError")
    ELSE LET inputs ==
                 (<<"0", "x">> \o sliceFrom(toUpperCase(hashList), 2))
                 \o Comma \o toLowerCase(tokenAddress.str)
                 \o Comma \o toString(amount)
                 \o Comma \o toString(priorityFee)
                 \o Comma \o toString(nonce)
                 \o Comma \o (IF priorityFlag THEN <<"t", "r", "u", "e">>
                                              ELSE <<"f", "a", "l", "s", "e">>)
                 \o Comma \o toLowerCase(executor.str)
         IN  Ok(basicMessageBuilder(toString(evvmID), <<"d", "i", "s", "p", "e", "r", "s", "e", "P", "a", "y">>, inputs))

\* buildMessageSignedForPublicStaking numbering its messages with a module-level counter
buildMessageSignedForPublicStaking_Counting(evvmID, isStaking, amountOfSMate, nonce) ==
    LET inputs ==
            (IF isStaking THEN <<"t", "r", "u", "e">> ELSE <<"f", "a", "l", "s", "e">>)
            \o Comma \o toString(amountOfSMate)
            \o Comma \o toString(nonce + nCalls)
    IN  Ok(basicMessageBuilder(toString(evvmID), <<"p", "u", "b", "l", "i", "c", "S", "t", "a", "k", "i", "n", "g">>, inputs))

buildMessageSignedForPublicStaking(evvmID, isStaking, amountOfSMate, nonce) ==
    LET inputs ==
            (IF isStaking THEN <<"t", "r", "u", "e">> ELSE <<"f", "a", "l", "s", "e">>)
            \o Comma \o toString(amountOfSMate)
            \o Comma \o toString(nonce)
    IN  Ok(basicMessageBuilder(toString(evvmID), <<"p", "u", "b", "l", "i", "c", "S", "t", "a", "k", "i", "n", "g">>, inputs))

buildMessageSignedForPresaleStaking(evvmID, isStaking, amountOfSMate, nonce) ==
    LET inputs ==
            (IF isStaking THEN <<"t", "r", "u", "e">> ELSE <<"f", "a", "l", "s", "e">>)
            \o Comma \o toLocaleString(amountOfSMate)
            \o Comma \o toLocaleString(nonce)
    IN  Ok(basicMessageBuilder(toString(evvmID), <<"p", "r", "e", "s", "a", "l", "e", "S", "t", "a", "k", "i", "n", "g">>, inputs))

buildMessageSignedForPublicServiceStake(evvmID, serviceAddress, isStaking, amountOfSMate, nonce) ==
    IF ~IsString(serviceAddress) THEN Throw("TypeError")
    ELSE LET inputs ==
                 toLowerCase(serviceAddress.str)
                 \o Comma \o (IF isStaking THEN <<"t", "r", "u", "e">>
                                           ELSE <<"f", "a", "l", "s", "e">>)
                 \o Comma \o toString(amountOfSMate)
                 \o Comma \o toString(nonce)
         IN  Ok(basicMessageBuilder(toString(evvmID), <<"p", "u", "b", "l", "i", "c", "S", "e", "r", "v", "i", "c", "e", "S", "t", "a", "k", "i", "n", "g">>, inputs))

buildMessageSignedForPreRegistrationUsername(evvmID, hashUsername, nonceNameService) ==
    LET inputs ==
            (slice(toLowerCase(hashUsername), 0, 2) \o sliceFrom(toUpperCase(hashUsername), 2))
            \o Comma \o toString(nonceNameService)
    IN  Ok(basicMessageBuilder(toString(evvmID), <<"p", "r", "e", "R", "e", "g", "i", "s", "t", "r", "a", "t", "i", "o", "n", "U", "s", "e", "r", "n", "a", "m", "e">>, inputs))

\* buildMessageSignedForRegistrationUsername without the clowNumber field
buildMessageSignedForRegistrationUsername_ClowDropped(evvmID, username, clowNumber, nonceNameService) ==
    LET inputs ==
            username \o Comma \o toString(nonceNameService)
    IN  Ok(basicMessageBuilder(toString(evvmID), <<"r", "e", "g", "i", "s", "t", "r", "a", "t", "i", "o", "n", "U", "s", "e", "r", "n", "a", "m", "e">>, inputs))

buildMessageSignedForRegistrationUsername(evvmID, username, clowNumber, nonceNameService) ==
    LET inputs ==
            username \o Comma \o toString(clowNumber) \o Comma \o toString(nonceNameService)
    IN  Ok(basicMessageBuilder(toString(evvmID), <<"r", "e", "g", "i", "s", "t", "r", "a", "t", "i", "o", "n", "U", "s", "e", "r", "n", "a", "m", "e">>, inputs))

buildMessageSignedForMakeOffer(evvmID, username, dateExpire, amount, nonceNameService) ==
    LET inputs ==
            username
            \o Comma \o toString(dateExpire)
            \o Comma \o toString(amount)
            \o Comma \o toString(nonceNameService)
    IN  Ok(basicMessageBuilder(toString(evvmID), <<"m", "a", "k", "e", "O", "f", "f", "e", "r">>, inputs))

buildMessageSignedForWithdrawOffer(evvmID, username, offerId, mateNameServiceNonce) ==
    LET inputs ==
            username \o Comma \o toString(offerId) \o Comma \o toString(mateNameServiceNonce)
    IN  Ok(basicMessageBuilder(toString(evvmID), <<"w", "i", "t", "h", "d", "r", "a", "w", "O", "f", "f", "e", "r">>, inputs))

buildMessageSignedForAcceptOffer(evvmID, username, offerId, mateNameServiceNonce) ==
    LET inputs ==
            username \o Comma \o toString(offerId) \o Comma \o toString(mateNameServiceNonce)
    IN  Ok(basicMessageBuilder(toString(evvmID), <<"a", "c", "c", "e", "p", "t", "O", "f", "f", "e", "r">>, inputs))

buildMessageSignedForRenewUsername(evvmID, username, mateNameServiceNonce) ==
    LET inputs == username \o Comma \o toString(mateNameServiceNonce)
    IN  Ok(basicMessageBuilder(toString(evvmID), <<"r", "e", "n", "e", "w", "U", "s", "e", "r", "n", "a", "m", "e">>, inputs))

buildMessageSignedForAddCustomMetadata(evvmID, identity, value, mateNameServiceNonce) ==
    LET inputs ==
            identity \o Comma \o value \o Comma \o toString(mateNameServiceNonce)
    IN  Ok(basicMessageBuilder(toString(evvmID), <<"a", "d", "d", "C", "u", "s", "t", "o", "m", "M", "e", "t", "a", "d", "a", "t", "a">>, inputs))

buildMessageSignedForRemoveCustomMetadata(evvmID, identity, key, nonceNameService) ==
    LET inputs ==
            identity \o Comma \o toString(key) \o Comma \o toString(nonceNameService)
    IN  Ok(basicMessageBuilder(toString(evvmID), <<"r", "e", "m", "o", "v", "e", "C", "u", "s", "t", "o", "m", "M", "e", "t", "a", "d", "a", "t", "a">>, inputs))

buildMessageSignedForFlushCustomMetadata(evvmID, identity, nonceNameService) ==
    LET inputs == identity \o Comma \o toString(nonceNameService)
    IN  Ok(basicMessageBuilder(toString(evvmID), <<"f", "l", "u", "s", "h", "C", "u", "s", "t", "o", "m", "M", "e", "t", "a", "d", "a", "t", "a">>, inputs))

buildMessageSignedForFlushUsername(evvmID, username, nonceNameService) ==
    LET inputs == username \o Comma \o toString(nonceNameService)
    IN  Ok(basicMessageBuilder(toString(evvmID), <<"f", "l", "u", "s", "h", "U", "s", "e", "r", "n", "a", "m", "e">>, inputs))

(***************************************************************************)
(* src/unnamed/part_000: the same canonicalizers written as template       *)
(* literals that start with a fixed selector.                              *)
(***************************************************************************)
constructMessageForDepositFisher_p000(isERC20, receiverAddress, nonce, tokenAddress, priorityFee, amount) ==
    IF ~IsString(receiverAddress) \/ ~IsString(tokenAddress) THEN Throw("TypeError")
    ELSE Ok(<<"d", "7", "b", "0", "f", "e", "9", "e">>
            \o Comma \o boolString(isERC20)
            \o Comma \o toLowerCase(receiverAddress.str)
            \o Comma \o toString(nonce)
            \o Comma \o toLowerCase(tokenAddress.str)
            \o Comma \o priorityFee
            \o Comma \o amount)

buildMessageSignedForPay_p000(evvmID, to, tokenAddress, amount, priorityFee, nonce, priorityFlag, executor) ==
    IF ~IsString(to) \/ ~IsString(tokenAddress) \/ ~IsString(executor)
    THEN Throw("TypeError")
    ELSE Ok(<<"e", "f", "8", "3", "c", "1", "d", "6">>
            \o Comma \o toString(evvmID)
            \o Comma \o toLowerCase(to.str)
            \o Comma \o toLowerCase(tokenAddress.str)
            \o Comma \o toString(amount)
            \o Comma \o toString(priorityFee)
            \o Comma \o toString(nonce)
            \o Comma \o boolString(priorityFlag)
            \o Comma \o toLowerCase(executor.str))

buildMessageSignedForDispersePay_p000(evvmID, hashList, tokenAddress, amount, priorityFee, nonce, priorityFlag, executor) ==
    IF ~IsString(tokenAddress) \/ ~IsString(executor) THEN Throw("TypeError")
    ELSE Ok(<<"e", "f", "8", "3", "c", "1", "d", "6">>
            \o Comma \o toString(evvmID)
            \o Comma \o hashList
            \o Comma \o toLowerCase(tokenAddress.str)
            \o Comma \o toString(amount)
            \o Comma \o toString(priorityFee)
            \o Comma \o toString(nonce)
            \o Comma \o boolString(priorityFlag)
            \o Comma \o toLowerCase(executor.str))

buildMessageSignedForPublicStaking_p000(evvmID, isStaking, amountOfSMate, nonce) ==
    Ok(<<"e", "9", "1", "b", "3", "f", "9", "4">>
       \o Comma \o toString(evvmID)
       \o Comma \o boolString(isStaking)
       \o Comma \o toString(amountOfSMate)
       \o Comma \o toString(nonce))

buildMessageSignedForPresaleStaking_p000(evvmID, isStaking, amountOfSMate, nonce) ==
    Ok(<<"e", "9", "1", "b", "3", "f", "9", "4">>
       \o Comma \o toString(evvmID)
       \o Comma \o boolString(isStaking)
       \o Comma \o toString(amountOfSMate)
       \o Comma \o toString(nonce))

buildMessageSignedForPublicServiceStake_p000(evvmID, serviceAddress, isStaking, amountOfSMate, nonce) ==
    IF ~IsString(serviceAddress) THEN Throw("TypeError")
    ELSE Ok(<<"e", "9", "1", "b", "3", "f", "9", "4">>
            \o Comma \o toString(evvmID)
            \o Comma \o toLowerCase(serviceAddress.str)
            \o Comma \o boolString(isStaking)
            \o Comma \o toString(amountOfSMate)
            \o Comma \o toString(nonce))

buildMessageSignedForPreRegistrationUsername_p000(evvmID, hashPreRegisteredUsername, nonce) ==
    Ok(<<"e", "9", "1", "b", "3", "f", "9", "4">>
       \o Comma \o toString(evvmID)
       \o Comma \o hashPreRegisteredUsername
       \o Comma \o toString(nonce))

buildMessageSignedForRegistrationUsername_p000(evvmID, username, clowNumber, nonce) ==
    Ok(<<"e", "9", "1", "b", "3", "f", "9", "4">>
       \o Comma \o toString(evvmID)
       \o Comma \o username
       \o Comma \o toString(clowNumber)
       \o Comma \o toString(nonce))

buildMessageSignedForMakeOffer_p000(evvmID, username, expireDate, amount, nonce) ==
    Ok(<<"e", "9", "1", "b", "3", "f", "9", "4">>
       \o Comma \o toString(evvmID)
       \o Comma \o username
       \o Comma \o toString(expireDate)
       \o Comma \o toString(amount)
       \o Comma \o toString(nonce))

buildMessageSignedForWithdrawOffer_p000(evvmID, username, offerID, nonce) ==
    Ok(<<"e", "9", "1", "b", "3", "f", "9", "4">>
       \o Comma \o toString(evvmID)
       \o Comma \o username
       \o Comma \o toString(offerID)
       \o Comma \o toString(nonce))

buildMessageSignedForAcceptOffer_p000(evvmID, username, offerID, nonce) ==
    Ok(<<"e", "9", "1", "b", "3", "f", "9", "4">>
       \o Comma \o toString(evvmID)
       \o Comma \o username
       \o Comma \o toString(offerID)
       \o Comma \o toString(nonce))

buildMessageSignedForRenewUsername_p000(evvmID, username, nonce) ==
    Ok(<<"e", "9", "1", "b", "3", "f", "9", "4">>
       \o Comma \o toString(evvmID)
       \o Comma \o username
       \o Comma \o toString(nonce))

buildMessageSignedForAddCustomMetadata_p000(evvmID, identity, value, nonce) ==
    Ok(<<"e", "9", "1", "b", "3", "f", "9", "4">>
       \o Comma \o toString(evvmID)
       \o Comma \o identity
       \o Comma \o value
       \o Comma \o toString(nonce))

buildMessageSignedForRemoveCustomMetadata_p000(evvmID, identity, key, nonce) ==
    Ok(<<"e", "9", "1", "b", "3", "f", "9", "4">>
       \o Comma \o toString(evvmID)
       \o Comma \o identity
       \o Comma \o toString(key)
       \o Comma \o toString(nonce))

buildMessageSignedForFlushCustomMetadata_p000(evvmID, identity, nonce) ==
    Ok(<<"e", "9", "1", "b", "3", "f", "9", "4">>
       \o Comma \o toString(evvmID)
       \o Comma \o identity
       \o Comma \o toString(nonce))

buildMessageSignedForFlushUsername_p000(evvmID, username, nonce) ==
    Ok(<<"e", "9", "1", "b", "3", "f", "9", "4">>
       \o Comma \o toString(evvmID)
       \o Comma \o username
       \o Comma \o toString(nonce))

(***************************************************************************)
(* Inputs.  Addresses and digests are shortened (the canonicalizers treat  *)
(* them character by character); integers include values of 1000 and more. *)
(***************************************************************************)
EvvmIDs == 1..MaxEvvmID
Recipients == {Str(<<"0", "x", "a", "B">>), Str(<<"0", "X", "A", "B">>), Str(<<"B", "o", "b">>), Str(<<>>), Undefined}
TokenAddresses == {Str(<<"0", "x", "c", "D">>), Undefined}
Executors == {Str(<<"0", "X", "E", "f">>), Undefined}
ServiceAddresses == {Str(<<"0", "x", "a", "B">>), Str(<<"0", "X", "A", "B">>), Undefined}
Hashes == {<<"0", "x", "a", "1">>, <<"0", "x", "a", "F">>}
Texts == {<<"a">>, <<"a", ",", "b">>, <<"B", "o", "b">>}
MetadataValues == {<<"c">>, <<"b", ",", "c">>}
Amounts == {7, 5083000}
Fees == {0, 1000}
Nonces == {1, 1234}
Numbers == {3, 12345}
DecimalStrings == {<<"7">>, <<"1", "0", "0", "0">>}
PayArgs == [evvmID : EvvmIDs, to : Recipients, tokenAddress : TokenAddresses, amount : Amounts, priorityFee : Fees, nonce : Nonces, priorityFlag : BOOLEAN, executor : Executors]
DispersePayArgs == [evvmID : EvvmIDs, hashList : Hashes, tokenAddress : TokenAddresses, amount : Amounts, priorityFee : Fees, nonce : Nonces, priorityFlag : BOOLEAN, executor : Executors]
PublicStakingArgs == [evvmID : EvvmIDs, isStaking : BOOLEAN, amountOfSMate : Amounts, nonce : Nonces]
PresaleStakingArgs == [evvmID : EvvmIDs, isStaking : BOOLEAN, amountOfSMate : Amounts, nonce : Nonces]
PublicServiceStakeArgs == [evvmID : EvvmIDs, serviceAddress : ServiceAddresses, isStaking : BOOLEAN, amountOfSMate : Amounts, nonce : Nonces]
PreRegistrationUsernameArgs == [evvmID : EvvmIDs, hashUsername : Hashes, nonce : Nonces]
RegistrationUsernameArgs == [evvmID : EvvmIDs, username : Texts, clowNumber : Numbers, nonce : Nonces]
MakeOfferArgs == [evvmID : EvvmIDs, username : Texts, dateExpire : Numbers, amount : Amounts, nonce : Nonces]
WithdrawOfferArgs == [evvmID : EvvmIDs, username : Texts, offerId : Numbers, nonce : Nonces]
AcceptOfferArgs == [evvmID : EvvmIDs, username : Texts, offerId : Numbers, nonce : Nonces]
RenewUsernameArgs == [evvmID : EvvmIDs, username : Texts, nonce : Nonces]
AddCustomMetadataArgs == [evvmID : EvvmIDs, identity : Texts, value : MetadataValues, nonce : Nonces]
RemoveCustomMetadataArgs == [evvmID : EvvmIDs, identity : Texts, key : Numbers, nonce : Nonces]
FlushCustomMetadataArgs == [evvmID : EvvmIDs, identity : Texts, nonce : Nonces]
FlushUsernameArgs == [evvmID : EvvmIDs, username : Texts, nonce : Nonces]
DepositFisherArgs == [isERC20 : BOOLEAN, receiverAddress : ServiceAddresses, nonce : Nonces, tokenAddress : TokenAddresses, priorityFee : DecimalStrings, ammount : DecimalStrings]

Files == {"constructMessage.ts", "part_000"}
Ops == {"pay", "dispersePay", "publicStaking", "presaleStaking", "publicServiceStaking", "preRegistrationUsername", "registrationUsername", "makeOffer", "withdrawOffer", "acceptOffer", "renewUsername", "addCustomMetadata", "removeCustomMetadata", "flushCustomMetadata", "flushUsername"}

ArgsOf(op) ==
    CASE op = "pay" -> PayArgs
      [] op = "dispersePay" -> DispersePayArgs
      [] op = "publicStaking" -> PublicStakingArgs
      [] op = "presaleStaking" -> PresaleStakingArgs
      [] op = "publicServiceStaking" -> PublicServiceStakeArgs
      [] op = "preRegistrationUsername" -> PreRegistrationUsernameArgs
      [] op = "registrationUsername" -> RegistrationUsernameArgs
      [] op = "makeOffer" -> MakeOfferArgs
      [] op = "withdrawOffer" -> WithdrawOfferArgs
      [] op = "acceptOffer" -> AcceptOfferArgs
      [] op = "renewUsername" -> RenewUsernameArgs
      [] op = "addCustomMetadata" -> AddCustomMetadataArgs
      [] op = "removeCustomMetadata" -> RemoveCustomMetadataArgs
      [] op = "flushCustomMetadata" -> FlushCustomMetadataArgs
      [] op = "flushUsername" -> FlushUsernameArgs
      [] op = "depositFisher" -> DepositFisherArgs
\* the canonicalizer of file f for operation op, applied to the argument record a
Apply(f, op, a) ==
    CASE f = "constructMessage.ts" /\ op = "depositFisher" ->
           constructMessageForDepositFisher(a.isERC20, a.receiverAddress, a.nonce, a.tokenAddress, a.priorityFee, a.ammount)
      [] f = "part_000" /\ op = "depositFisher" ->
           constructMessageForDepositFisher_p000(a.isERC20, a.receiverAddress, a.nonce, a.tokenAddress, a.priorityFee, a.ammount)
      [] f = "constructMessage.ts" /\ op = "pay" ->
           buildMessageSignedForPay(a.evvmID, a.to, a.tokenAddress, a.amount, a.priorityFee, a.nonce, a.priorityFlag, a.executor)
      [] f = "constructMessage.ts" /\ op = "dispersePay" ->
           buildMessageSignedForDispersePay(a.evvmID, a.hashList, a.tokenAddress, a.amount, a.priorityFee, a.nonce, a.priorityFlag, a.executor)
      [] f = "constructMessage.ts" /\ op = "publicStaking" ->
           buildMessageSignedForPublicStaking(a.evvmID, a.isStaking, a.amountOfSMate, a.nonce)
      [] f = "constructMessage.ts" /\ op = "presaleStaking" ->
           buildMessageSignedForPresaleStaking(a.evvmID, a.isStaking, a.amountOfSMate, a.nonce)
      [] f = "constructMessage.ts" /\ op = "publicServiceStaking" ->
           buildMessageSignedForPublicServiceStake(a.evvmID, a.serviceAddress, a.isStaking, a.amountOfSMate, a.nonce)
      [] f = "constructMessage.ts" /\ op = "preRegistrationUsername" ->
           buildMessageSignedForPreRegistrationUsername(a.evvmID, a.hashUsername, a.nonce)
      [] f = "constructMessage.ts" /\ op = "registrationUsername" ->
           buildMessageSignedForRegistrationUsername(a.evvmID, a.username, a.clowNumber, a.nonce)
      [] f = "constructMessage.ts" /\ op = "makeOffer" ->
           buildMessageSignedForMakeOffer(a.evvmID, a.username, a.dateExpire, a.amount, a.nonce)
      [] f = "constructMessage.ts" /\ op = "withdrawOffer" ->
           buildMessageSignedForWithdrawOffer(a.evvmID, a.username, a.offerId, a.nonce)
      [] f = "constructMessage.ts" /\ op = "acceptOffer" ->
           buildMessageSignedForAcceptOffer(a.evvmID, a.username, a.offerId, a.nonce)
      [] f = "constructMessage.ts" /\ op = "renewUsername" ->
           buildMessageSignedForRenewUsername(a.evvmID, a.username, a.nonce)
      [] f = "constructMessage.ts" /\ op = "addCustomMetadata" ->
           buildMessageSignedForAddCustomMetadata(a.evvmID, a.identity, a.value, a.nonce)
      [] f = "constructMessage.ts" /\ op = "removeCustomMetadata" ->
           buildMessageSignedForRemoveCustomMetadata(a.evvmID, a.identity, a.key, a.nonce)
      [] f = "constructMessage.ts" /\ op = "flushCustomMetadata" ->
           buildMessageSignedForFlushCustomMetadata(a.evvmID, a.identity, a.nonce)
      [] f = "constructMessage.ts" /\ op = "flushUsername" ->
           buildMessageSignedForFlushUsername(a.evvmID, a.username, a.nonce)
      [] f = "part_000" /\ op = "pay" ->
           buildMessageSignedForPay_p000(a.evvmID, a.to, a.tokenAddress, a.amount, a.priorityFee, a.nonce, a.priorityFlag, a.executor)
      [] f = "part_000" /\ op = "dispersePay" ->
           buildMessageSignedForDispersePay_p000(a.evvmID, a.hashList, a.tokenAddress, a.amount, a.priorityFee, a.nonce, a.priorityFlag, a.executor)
      [] f = "part_000" /\ op = "publicStaking" ->
           buildMessageSignedForPublicStaking_p000(a.evvmID, a.isStaking, a.amountOfSMate, a.nonce)
      [] f = "part_000" /\ op = "presaleStaking" ->
           buildMessageSignedForPresaleStaking_p000(a.evvmID, a.isStaking, a.amountOfSMate, a.nonce)
      [] f = "part_000" /\ op = "publicServiceStaking" ->
           buildMessageSignedForPublicServiceStake_p000(a.evvmID, a.serviceAddress, a.isStaking, a.amountOfSMate, a.nonce)
      [] f = "part_000" /\ op = "preRegistrationUsername" ->
           buildMessageSignedForPreRegistrationUsername_p000(a.evvmID, a.hashUsername, a.nonce)
      [] f = "part_000" /\ op = "registrationUsername" ->
           buildMessageSignedForRegistrationUsername_p000(a.evvmID, a.username, a.clowNumber, a.nonce)
      [] f = "part_000" /\ op = "makeOffer" ->
           buildMessageSignedForMakeOffer_p000(a.evvmID, a.username, a.dateExpire, a.amount, a.nonce)
      [] f = "part_000" /\ op = "withdrawOffer" ->
           buildMessageSignedForWithdrawOffer_p000(a.evvmID, a.username, a.offerId, a.nonce)
      [] f = "part_000" /\ op = "acceptOffer" ->
           buildMessageSignedForAcceptOffer_p000(a.evvmID, a.username, a.offerId, a.nonce)
      [] f = "part_000" /\ op = "renewUsername" ->
           buildMessageSignedForRenewUsername_p000(a.evvmID, a.username, a.nonce)
      [] f = "part_000" /\ op = "addCustomMetadata" ->
           buildMessageSignedForAddCustomMetadata_p000(a.evvmID, a.identity, a.value, a.nonce)
      [] f = "part_000" /\ op = "removeCustomMetadata" ->
           buildMessageSignedForRemoveCustomMetadata_p000(a.evvmID, a.identity, a.key, a.nonce)
      [] f = "part_000" /\ op = "flushCustomMetadata" ->
           buildMessageSignedForFlushCustomMetadata_p000(a.evvmID, a.identity, a.nonce)
      [] f = "part_000" /\ op = "flushUsername" ->
           buildMessageSignedForFlushUsername_p000(a.evvmID, a.username, a.nonce)

(***************************************************************************)
(* Promises.  A promise is pending, resolved with a value or rejected with *)
(* an error.  Values are records: [signature], [hash], or the pair         *)
(* [paySignature, actionSignature] of a dual-signature result.             *)
(***************************************************************************)
NoValue == [none |-> TRUE]
Pending == [kind |-> "pending", val |-> NoValue, err |-> "none"]
Resolved(v) == [kind |-> "resolved", val |-> v, err |-> "none"]
Rejected(e) == [kind |-> "rejected", val |-> NoValue, err |-> e]
NoInvocation == [method |-> "none", args |-> [none |-> TRUE]]
NoPrev == [cur |-> NoInvocation, requests |-> <<>>, writes |-> <<>>, outcome |-> Pending]
NoBuilder == [walletClient |-> "none", account |-> "none"]
NoOther == [cur |-> NoInvocation, pc |-> "idle", requests |-> <<>>, outcome |-> Pending]

(***************************************************************************)
(* State machine: a caller invokes one canonicalizer (Call...), may invoke *)
(* other canonicalizers and drop their results (OtherCall), and may invoke *)
(* the first one again with the same arguments (Repeat).                   *)
(***************************************************************************)
NoResult == Throw("none")
NoObs == [file |-> "none", op |-> "none", args |-> [evvmID |-> 0], result |-> NoResult]

Init ==
    /\ locale \in Locales
    /\ phase = "idle"
    /\ obs = NoObs
    /\ again = NoResult
    /\ nCalls = 0
    /\ utils = "unlinked"
    /\ cur = NoInvocation
    /\ pc = "idle"
    /\ requests = <<>>
    /\ writes = <<>>
    /\ outcome = Pending
    /\ prev = NoPrev
    /\ nInv = 0
    /\ builder = NoBuilder
    /\ other = NoOther

CallDepositFisher ==
    /\ phase = "idle"
    /\ nCalls < MaxCalls
    /\ \E a \in DepositFisherArgs :
           obs' = [file |-> "constructMessage.ts", op |-> "depositFisher", args |-> a,
                   result |-> Apply("constructMessage.ts", "depositFisher", a)]
    /\ phase' = "called"
    /\ nCalls' = nCalls + 1
    /\ UNCHANGED <<locale, again>>
    /\ UNCHANGED clientVars

CallPay ==
    /\ phase = "idle"
    /\ nCalls < MaxCalls
    /\ \E a \in PayArgs :
           obs' = [file |-> "constructMessage.ts", op |-> "pay", args |-> a,
                   result |-> Apply("constructMessage.ts", "pay", a)]
    /\ phase' = "called"
    /\ nCalls' = nCalls + 1
    /\ UNCHANGED <<locale, again>>
    /\ UNCHANGED clientVars

CallDispersePay ==
    /\ phase = "idle"
    /\ nCalls < MaxCalls
    /\ \E a \in DispersePayArgs :
           obs' = [file |-> "constructMessage.ts", op |-> "dispersePay", args |-> a,
                   result |-> Apply("constructMessage.ts", "dispersePay", a)]
    /\ phase' = "called"
    /\ nCalls' = nCalls + 1
    /\ UNCHANGED <<locale, again>>
    /\ UNCHANGED clientVars

CallPublicStaking ==
    /\ phase = "idle"
    /\ nCalls < MaxCalls
    /\ \E a \in PublicStakingArgs :
           obs' = [file |-> "constructMessage.ts", op |-> "publicStaking", args |-> a,
                   result |-> Apply("constructMessage.ts", "publicStaking", a)]
    /\ phase' = "called"
    /\ nCalls' = nCalls + 1
    /\ UNCHANGED <<locale, again>>
    /\ UNCHANGED clientVars

CallPresaleStaking ==
    /\ phase = "idle"
    /\ nCalls < MaxCalls
    /\ \E a \in PresaleStakingArgs :
           obs' = [file |-> "constructMessage.ts", op |-> "presaleStaking", args |-> a,
                   result |-> Apply("constructMessage.ts", "presaleStaking", a)]
    /\ phase' = "called"
    /\ nCalls' = nCalls + 1
    /\ UNCHANGED <<locale, again>>
    /\ UNCHANGED clientVars

CallPublicServiceStake ==
    /\ phase = "idle"
    /\ nCalls < MaxCalls
    /\ \E a \in PublicServiceStakeArgs :
           obs' = [file |-> "constructMessage.ts", op |-> "publicServiceStaking", args |-> a,
                   result |-> Apply("constructMessage.ts", "publicServiceStaking", a)]
    /\ phase' = "called"
    /\ nCalls' = nCalls + 1
    /\ UNCHANGED <<locale, again>>
    /\ UNCHANGED clientVars

CallPreRegistrationUsername ==
    /\ phase = "idle"
    /\ nCalls < MaxCalls
    /\ \E a \in PreRegistrationUsernameArgs :
           obs' = [file |-> "constructMessage.ts", op |-> "preRegistrationUsername", args |-> a,
                   result |-> Apply("constructMessage.ts", "preRegistrationUsername", a)]
    /\ phase' = "called"
    /\ nCalls' = nCalls + 1
    /\ UNCHANGED <<locale, again>>
    /\ UNCHANGED clientVars

CallRegistrationUsername ==
    /\ phase = "idle"
    /\ nCalls < MaxCalls
    /\ \E a \in RegistrationUsernameArgs :
           obs' = [file |-> "constructMessage.ts", op |-> "registrationUsername", args |-> a,
                   result |-> Apply("constructMessage.ts", "registrationUsername", a)]
    /\ phase' = "called"
    /\ nCalls' = nCalls + 1
    /\ UNCHANGED <<locale, again>>
    /\ UNCHANGED clientVars

CallMakeOffer ==
    /\ phase = "idle"
    /\ nCalls < MaxCalls
    /\ \E a \in MakeOfferArgs :
           obs' = [file |-> "constructMessage.ts", op |-> "makeOffer", args |-> a,
                   result |-> Apply("constructMessage.ts", "makeOffer", a)]
    /\ phase' = "called"
    /\ nCalls' = nCalls + 1
    /\ UNCHANGED <<locale, again>>
    /\ UNCHANGED clientVars

CallWithdrawOffer ==
    /\ phase = "idle"
    /\ nCalls < MaxCalls
    /\ \E a \in WithdrawOfferArgs :
           obs' = [file |-> "constructMessage.ts", op |-> "withdrawOffer", args |-> a,
                   result |-> Apply("constructMessage.ts", "withdrawOffer", a)]
    /\ phase' = "called"
    /\ nCalls' = nCalls + 1
    /\ UNCHANGED <<locale, again>>
    /\ UNCHANGED clientVars

CallAcceptOffer ==
    /\ phase = "idle"
    /\ nCalls < MaxCalls
    /\ \E a \in AcceptOfferArgs :
           obs' = [file |-> "constructMessage.ts", op |-> "acceptOffer", args |-> a,
                   result |-> Apply("constructMessage.ts", "acceptOffer", a)]
    /\ phase' = "called"
    /\ nCalls' = nCalls + 1
    /\ UNCHANGED <<locale, again>>
    /\ UNCHANGED clientVars

CallRenewUsername ==
    /\ phase = "idle"
    /\ nCalls < MaxCalls
    /\ \E a \in RenewUsernameArgs :
           obs' = [file |-> "constructMessage.ts", op |-> "renewUsername", args |-> a,
                   result |-> Apply("constructMessage.ts", "renewUsername", a)]
    /\ phase' = "called"
    /\ nCalls' = nCalls + 1
    /\ UNCHANGED <<locale, again>>
    /\ UNCHANGED clientVars

CallAddCustomMetadata ==
    /\ phase = "idle"
    /\ nCalls < MaxCalls
    /\ \E a \in AddCustomMetadataArgs :
           obs' = [file |-> "constructMessage.ts", op |-> "addCustomMetadata", args |-> a,
                   result |-> Apply("constructMessage.ts", "addCustomMetadata", a)]
    /\ phase' = "called"
    /\ nCalls' = nCalls + 1
    /\ UNCHANGED <<locale, again>>
    /\ UNCHANGED clientVars

CallRemoveCustomMetadata ==
    /\ phase = "idle"
    /\ nCalls < MaxCalls
    /\ \E a \in RemoveCustomMetadataArgs :
           obs' = [file |-> "constructMessage.ts", op |-> "removeCustomMetadata", args |-> a,
                   result |-> Apply("constructMessage.ts", "removeCustomMetadata", a)]
    /\ phase' = "called"
    /\ nCalls' = nCalls + 1
    /\ UNCHANGED <<locale, again>>
    /\ UNCHANGED clientVars

CallFlushCustomMetadata ==
    /\ phase = "idle"
    /\ nCalls < MaxCalls
    /\ \E a \in FlushCustomMetadataArgs :
           obs' = [file |-> "constructMessage.ts", op |-> "flushCustomMetadata", args |-> a,
                   result |-> Apply("constructMessage.ts", "flushCustomMetadata", a)]
    /\ phase' = "called"
    /\ nCalls' = nCalls + 1
    /\ UNCHANGED <<locale, again>>
    /\ UNCHANGED clientVars

CallFlushUsername ==
    /\ phase = "idle"
    /\ nCalls < MaxCalls
    /\ \E a \in FlushUsernameArgs :
           obs' = [file |-> "constructMessage.ts", op |-> "flushUsername", args |-> a,
                   result |-> Apply("constructMessage.ts", "flushUsername", a)]
    /\ phase' = "called"
    /\ nCalls' = nCalls + 1
    /\ UNCHANGED <<locale, again>>
    /\ UNCHANGED clientVars

CallDepositFisher_p000 ==
    /\ phase = "idle"
    /\ nCalls < MaxCalls
    /\ \E a \in DepositFisherArgs :
           obs' = [file |-> "part_000", op |-> "depositFisher", args |-> a,
                   result |-> Apply("part_000", "depositFisher", a)]
    /\ phase' = "called"
    /\ nCalls' = nCalls + 1
    /\ UNCHANGED <<locale, again>>
    /\ UNCHANGED clientVars

CallPay_p000 ==
    /\ phase = "idle"
    /\ nCalls < MaxCalls
    /\ \E a \in PayArgs :
           obs' = [file |-> "part_000", op |-> "pay", args |-> a,
                   result |-> Apply("part_000", "pay", a)]
    /\ phase' = "called"
    /\ nCalls' = nCalls + 1
    /\ UNCHANGED <<locale, again>>
    /\ UNCHANGED clientVars

CallDispersePay_p000 ==
    /\ phase = "idle"
    /\ nCalls < MaxCalls
    /\ \E a \in DispersePayArgs :
           obs' = [file |-> "part_000", op |-> "dispersePay", args |-> a,
                   result |-> Apply("part_000", "dispersePay", a)]
    /\ phase' = "called"
    /\ nCalls' = nCalls + 1
    /\ UNCHANGED <<locale, again>>
    /\ UNCHANGED clientVars

CallPublicStaking_p000 ==
    /\ phase = "idle"
    /\ nCalls < MaxCalls
    /\ \E a \in PublicStakingArgs :
           obs' = [file |-> "part_000", op |-> "publicStaking", args |-> a,
                   result |-> Apply("part_000", "publicStaking", a)]
    /\ phase' = "called"
    /\ nCalls' = nCalls + 1
    /\ UNCHANGED <<locale, again>>
    /\ UNCHANGED clientVars

CallPresaleStaking_p000 ==
    /\ phase = "idle"
    /\ nCalls < MaxCalls
    /\ \E a \in PresaleStakingArgs :
           obs' = [file |-> "part_000", op |-> "presaleStaking", args |-> a,
                   result |-> Apply("part_000", "presaleStaking", a)]
    /\ phase' = "called"
    /\ nCalls' = nCalls + 1
    /\ UNCHANGED <<locale, again>>
    /\ UNCHANGED clientVars

CallPublicServiceStake_p000 ==
    /\ phase = "idle"
    /\ nCalls < MaxCalls
    /\ \E a \in PublicServiceStakeArgs :
           obs' = [file |-> "part_000", op |-> "publicServiceStaking", args |-> a,
                   result |-> Apply("part_000", "publicServiceStaking", a)]
    /\ phase' = "called"
    /\ nCalls' = nCalls + 1
    /\ UNCHANGED <<locale, again>>
    /\ UNCHANGED clientVars

CallPreRegistrationUsername_p000 ==
    /\ phase = "idle"
    /\ nCalls < MaxCalls
    /\ \E a \in PreRegistrationUsernameArgs :
           obs' = [file |-> "part_000", op |-> "preRegistrationUsername", args |-> a,
                   result |-> Apply("part_000", "preRegistrationUsername", a)]
    /\ phase' = "called"
    /\ nCalls' = nCalls + 1
    /\ UNCHANGED <<locale, again>>
    /\ UNCHANGED clientVars

CallRegistrationUsername_p000 ==
    /\ phase = "idle"
    /\ nCalls < MaxCalls
    /\ \E a \in RegistrationUsernameArgs :
           obs' = [file |-> "part_000", op |-> "registrationUsername", args |-> a,
                   result |-> Apply("part_000", "registrationUsername", a)]
    /\ phase' = "called"
    /\ nCalls' = nCalls + 1
    /\ UNCHANGED <<locale, again>>
    /\ UNCHANGED clientVars

CallMakeOffer_p000 ==
    /\ phase = "idle"
    /\ nCalls < MaxCalls
    /\ \E a \in MakeOfferArgs :
           obs' = [file |-> "part_000", op |-> "makeOffer", args |-> a,
                   result |-> Apply("part_000", "makeOffer", a)]
    /\ phase' = "called"
    /\ nCalls' = nCalls + 1
    /\ UNCHANGED <<locale, again>>
    /\ UNCHANGED clientVars

CallWithdrawOffer_p000 ==
    /\ phase = "idle"
    /\ nCalls < MaxCalls
    /\ \E a \in WithdrawOfferArgs :
           obs' = [file |-> "part_000", op |-> "withdrawOffer", args |-> a,
                   result |-> Apply("part_000", "withdrawOffer", a)]
    /\ phase' = "called"
    /\ nCalls' = nCalls + 1
    /\ UNCHANGED <<locale, again>>
    /\ UNCHANGED clientVars

CallAcceptOffer_p000 ==
    /\ phase = "idle"
    /\ nCalls < MaxCalls
    /\ \E a \in AcceptOfferArgs :
           obs' = [file |-> "part_000", op |-> "acceptOffer", args |-> a,
                   result |-> Apply("part_000", "acceptOffer", a)]
    /\ phase' = "called"
    /\ nCalls' = nCalls + 1
    /\ UNCHANGED <<locale, again>>
    /\ UNCHANGED clientVars

CallRenewUsername_p000 ==
    /\ phase = "idle"
    /\ nCalls < MaxCalls
    /\ \E a \in RenewUsernameArgs :
           obs' = [file |-> "part_000", op |-> "renewUsername", args |-> a,
                   result |-> Apply("part_000", "renewUsername", a)]
    /\ phase' = "called"
    /\ nCalls' = nCalls + 1
    /\ UNCHANGED <<locale, again>>
    /\ UNCHANGED clientVars

CallAddCustomMetadata_p000 ==
    /\ phase = "idle"
    /\ nCalls < MaxCalls
    /\ \E a \in AddCustomMetadataArgs :
           obs' = [file |-> "part_000", op |-> "addCustomMetadata", args |-> a,
                   result |-> Apply("part_000", "addCustomMetadata", a)]
    /\ phase' = "called"
    /\ nCalls' = nCalls + 1
    /\ UNCHANGED <<locale, again>>
    /\ UNCHANGED clientVars

CallRemoveCustomMetadata_p000 ==
    /\ phase = "idle"
    /\ nCalls < MaxCalls
    /\ \E a \in RemoveCustomMetadataArgs :
           obs' = [file |-> "part_000", op |-> "removeCustomMetadata", args |-> a,
                   result |-> Apply("part_000", "removeCustomMetadata", a)]
    /\ phase' = "called"
    /\ nCalls' = nCalls + 1
    /\ UNCHANGED <<locale, again>>
    /\ UNCHANGED clientVars

CallFlushCustomMetadata_p000 ==
    /\ phase = "idle"
    /\ nCalls < MaxCalls
    /\ \E a \in FlushCustomMetadataArgs :
           obs' = [file |-> "part_000", op |-> "flushCustomMetadata", args |-> a,
                   result |-> Apply("part_000", "flushCustomMetadata", a)]
    /\ phase' = "called"
    /\ nCalls' = nCalls + 1
    /\ UNCHANGED <<locale, again>>
    /\ UNCHANGED clientVars

CallFlushUsername_p000 ==
    /\ phase = "idle"
    /\ nCalls < MaxCalls
    /\ \E a \in FlushUsernameArgs :
           obs' = [file |-> "part_000", op |-> "flushUsername", args |-> a,
                   result |-> Apply("part_000", "flushUsername", a)]
    /\ phase' = "called"
    /\ nCalls' = nCalls + 1
    /\ UNCHANGED <<locale, again>>
    /\ UNCHANGED clientVars

OtherCall ==
    /\ phase = "called"
    /\ nCalls < MaxCalls
    /\ \E f \in Files, op \in Ops \cup {"depositFisher"} :
           \E a \in {CHOOSE x \in ArgsOf(op) : TRUE} :
               Apply(f, op, a).kind \in {"ok", "Error", "TypeError"}
    /\ nCalls' = nCalls + 1
    /\ UNCHANGED <<locale, phase, obs, again>>
    /\ UNCHANGED clientVars

Repeat ==
    /\ phase = "called"
    /\ again' = Apply(obs.file, obs.op, obs.args)
    /\ phase' = "repeated"
    /\ nCalls' = nCalls + 1
    /\ UNCHANGED <<locale, obs>>
    /\ UNCHANGED clientVars

Next ==
    \/ CallDepositFisher
    \/ CallDepositFisher_p000
    \/ CallPay
    \/ CallDispersePay
    \/ CallPublicStaking
    \/ CallPresaleStaking
    \/ CallPublicServiceStake
    \/ CallPreRegistrationUsername
    \/ CallRegistrationUsername
    \/ CallMakeOffer
    \/ CallWithdrawOffer
    \/ CallAcceptOffer
    \/ CallRenewUsername
    \/ CallAddCustomMetadata
    \/ CallRemoveCustomMetadata
    \/ CallFlushCustomMetadata
    \/ CallFlushUsername
    \/ CallPay_p000
    \/ CallDispersePay_p000
    \/ CallPublicStaking_p000
    \/ CallPresaleStaking_p000
    \/ CallPublicServiceStake_p000
    \/ CallPreRegistrationUsername_p000
    \/ CallRegistrationUsername_p000
    \/ CallMakeOffer_p000
    \/ CallWithdrawOffer_p000
    \/ CallAcceptOffer_p000
    \/ CallRenewUsername_p000
    \/ CallAddCustomMetadata_p000
    \/ CallRemoveCustomMetadata_p000
    \/ CallFlushCustomMetadata_p000
    \/ CallFlushUsername_p000
    \/ OtherCall
    \/ Repeat

Spec == Init /\ [][Next]_vars

(***************************************************************************)
(* Hash tools.  keccak256 and sha256 are library functions; each is kept   *)
(* as a function of its input to a lower-case 0x-prefixed digest.          *)
(***************************************************************************)
HexChars == <<"0", "1", "2", "3", "4", "5", "6", "7", "8", "9", "a", "b", "c", "d", "e", "f">>
Digest(n) == <<"0", "x", HexChars[((n \div 16) % 16) + 1], HexChars[(n % 16) + 1]>>

RECURSIVE SumAmounts(_)
SumAmounts(toData) ==
    IF toData = <<>> THEN 0 ELSE Head(toData).amount + SumAmounts(Tail(toData))

hashDispersePaymentUsersToPay(toData) == Digest(17 * Len(toData) + SumAmounts(toData))

hashPreRegisteredUsername(username, clowNumber) == Digest(31 * Len(username) + clowNumber)

(***************************************************************************)
(* Signature builders.  Each method is given as its plan: the messages it  *)
(* builds, and whether the pay message is built before the action message  *)
(* is signed ("before"), after the action signature arrived ("after"), or  *)
(* not at all ("none").  A message is the canonicalizer's result, so a     *)
(* canonicalizer that throws is part of the plan.  The canonicalizers are    *)
(* those of the file the import of '../utils' resolves to.                 *)
(***************************************************************************)
NativeToken == Str(<<"0", "x", "0", "0", "0", "0", "0", "0", "0", "0", "0", "0", "0", "0", "0", "0", "0", "0", "0", "0", "0", "0", "0", "0", "0", "0", "0", "0", "0", "0", "0", "0", "0", "0", "0", "0", "0", "0", "0", "0", "0", "1">>)

Single(message) == [returns |-> "signature", action |-> message, pay |-> "none", payMessage |-> NoResult]
Dual(actionMessage, when, payMessage) == [returns |-> "pair", action |-> actionMessage, pay |-> when, payMessage |-> payMessage]

\* the pay message with the native token address as executor
PayMessage_ExecutorUnset(evvmID, contract, amount, priorityFee, nonce, priorityFlag) ==
    IF utils = "part_000" THEN buildMessageSignedForPay_p000(evvmID, contract, NativeToken, amount, priorityFee, nonce, priorityFlag, NativeToken) ELSE buildMessageSignedForPay(evvmID, contract, NativeToken, amount, priorityFee, nonce, priorityFlag, NativeToken)

\* the pay message every builder derives for its contract: recipient and executor are the contract
PayMessage(evvmID, contract, amount, priorityFee, nonce, priorityFlag) ==
    IF utils = "part_000" THEN buildMessageSignedForPay_p000(evvmID, contract, NativeToken, amount, priorityFee, nonce, priorityFlag, contract) ELSE buildMessageSignedForPay(evvmID, contract, NativeToken, amount, priorityFee, nonce, priorityFlag, contract)

\* EVVMSignatureBuilder
signPay(a) ==
    Single(IF utils = "part_000" THEN buildMessageSignedForPay_p000(a.evvmID, a.to, a.tokenAddress, a.amount, a.priorityFee, a.nonce, a.priorityFlag, a.executor) ELSE buildMessageSignedForPay(a.evvmID, a.to, a.tokenAddress, a.amount, a.priorityFee, a.nonce, a.priorityFlag, a.executor))

signDispersePay(a) ==
    LET hashedEncodedData == hashDispersePaymentUsersToPay(a.toData)
    IN  Single(IF utils = "part_000" THEN buildMessageSignedForDispersePay_p000(a.evvmID, hashedEncodedData, a.tokenAddress, a.amount, a.priorityFee, a.nonce, a.priorityFlag, a.executor) ELSE buildMessageSignedForDispersePay(a.evvmID, hashedEncodedData, a.tokenAddress, a.amount, a.priorityFee, a.nonce, a.priorityFlag, a.executor))

\* StakingSignatureBuilder
signGoldenStaking_PriceAsFee(a) ==
    Single(PayMessage(a.evvmID, a.stakingAddress, 0, a.totalPrice, a.nonceEVVM, a.priorityFlag))

signGoldenStaking(a) ==
    Single(PayMessage(a.evvmID, a.stakingAddress, a.totalPrice, 0, a.nonceEVVM, a.priorityFlag))

signPresaleStaking_AlwaysPrice(a) ==
    LET stakingMessage == IF utils = "part_000" THEN buildMessageSignedForPresaleStaking_p000(a.evvmID, a.isStaking, a.totalPrice, a.nonce) ELSE buildMessageSignedForPresaleStaking(a.evvmID, a.isStaking, a.totalPrice, a.nonce)
        payMessage == PayMessage(a.evvmID, a.stakingAddress, a.totalPrice, a.priorityFee_EVVM, a.nonce_EVVM, a.priorityFlag_EVVM)
    IN  Dual(stakingMessage, "before", payMessage)

signPresaleStaking(a) ==
    LET stakingMessage == IF utils = "part_000" THEN buildMessageSignedForPresaleStaking_p000(a.evvmID, a.isStaking, a.totalPrice, a.nonce) ELSE buildMessageSignedForPresaleStaking(a.evvmID, a.isStaking, a.totalPrice, a.nonce)
        payMessage == PayMessage(a.evvmID, a.stakingAddress, IF a.isStaking THEN a.totalPrice ELSE 0, a.priorityFee_EVVM, a.nonce_EVVM, a.priorityFlag_EVVM)
    IN  Dual(stakingMessage, "before", payMessage)

signPublicStaking_SameMessage(a) ==
    LET stakingMessage == IF utils = "part_000" THEN buildMessageSignedForPublicStaking_p000(a.evvmID, a.isStaking, a.stakingAmount, a.nonceStaking) ELSE buildMessageSignedForPublicStaking(a.evvmID, a.isStaking, a.stakingAmount, a.nonceStaking)
    IN  Dual(stakingMessage, "before", stakingMessage)

signPublicStaking(a) ==
    LET stakingMessage == IF utils = "part_000" THEN buildMessageSignedForPublicStaking_p000(a.evvmID, a.isStaking, a.stakingAmount, a.nonceStaking) ELSE buildMessageSignedForPublicStaking(a.evvmID, a.isStaking, a.stakingAmount, a.nonceStaking)
        payMessage == PayMessage(a.evvmID, a.stakingAddress, IF a.isStaking THEN a.totalPrice ELSE 0, a.priorityFee, a.nonceEVVM, a.priorityFlag)
    IN  Dual(stakingMessage, "before", payMessage)

\* NameServiceSignatureBuilder of part_002: the pay message is built and signed only for a positive fee
signPreRegistrationUsername_p002(a) ==
    LET hashPreReg == hashPreRegisteredUsername(a.username, a.clowNumber)
        preRegistrationMessage == IF utils = "part_000" THEN buildMessageSignedForPreRegistrationUsername_p000(a.evvmID, hashPreReg, a.nonce) ELSE buildMessageSignedForPreRegistrationUsername(a.evvmID, hashPreReg, a.nonce)
    IN  IF a.priorityFee_EVVM > 0
        THEN Dual(preRegistrationMessage, "after", PayMessage(a.evvmID, a.addressNameService, a.priorityFee_EVVM, 0, a.nonce_EVVM, a.priorityFlag_EVVM))
        ELSE Dual(preRegistrationMessage, "none", NoResult)

signRegistrationUsername_p002(a) ==
    LET registrationMessage == IF utils = "part_000" THEN buildMessageSignedForRegistrationUsername_p000(a.evvmID, a.username, a.clowNumber, a.nonce) ELSE buildMessageSignedForRegistrationUsername(a.evvmID, a.username, a.clowNumber, a.nonce)
    IN  IF a.priorityFee_EVVM > 0
        THEN Dual(registrationMessage, "after", PayMessage(a.evvmID, a.addressNameService, a.priorityFee_EVVM, 0, a.nonce_EVVM, a.priorityFlag_EVVM))
        ELSE Dual(registrationMessage, "none", NoResult)

signMakeOffer_p002(a) ==
    LET makeOfferMessage == IF utils = "part_000" THEN buildMessageSignedForMakeOffer_p000(a.evvmID, a.username, a.expireDate, a.amount, a.nonce) ELSE buildMessageSignedForMakeOffer(a.evvmID, a.username, a.expireDate, a.amount, a.nonce)
    IN  IF a.priorityFee_EVVM > 0
        THEN Dual(makeOfferMessage, "after", PayMessage(a.evvmID, a.addressNameService, a.priorityFee_EVVM, 0, a.nonce_EVVM, a.priorityFlag_EVVM))
        ELSE Dual(makeOfferMessage, "none", NoResult)

signWithdrawOffer_p002(a) ==
    LET withdrawOfferMessage == IF utils = "part_000" THEN buildMessageSignedForWithdrawOffer_p000(a.evvmID, a.username, a.offerID, a.nonce) ELSE buildMessageSignedForWithdrawOffer(a.evvmID, a.username, a.offerID, a.nonce)
    IN  IF a.priorityFee_EVVM > 0
        THEN Dual(withdrawOfferMessage, "after", PayMessage(a.evvmID, a.addressNameService, a.priorityFee_EVVM, 0, a.nonce_EVVM, a.priorityFlag_EVVM))
        ELSE Dual(withdrawOfferMessage, "none", NoResult)

signAcceptOffer_p002(a) ==
    LET acceptOfferMessage == IF utils = "part_000" THEN buildMessageSignedForAcceptOffer_p000(a.evvmID, a.username, a.offerID, a.nonce) ELSE buildMessageSignedForAcceptOffer(a.evvmID, a.username, a.offerID, a.nonce)
    IN  IF a.priorityFee_EVVM > 0
        THEN Dual(acceptOfferMessage, "after", PayMessage(a.evvmID, a.addressNameService, a.priorityFee_EVVM, 0, a.nonce_EVVM, a.priorityFlag_EVVM))
        ELSE Dual(acceptOfferMessage, "none", NoResult)

signRenewUsername_p002(a) ==
    LET renewUsernameMessage == IF utils = "part_000" THEN buildMessageSignedForRenewUsername_p000(a.evvmID, a.username, a.nonce) ELSE buildMessageSignedForRenewUsername(a.evvmID, a.username, a.nonce)
    IN  IF a.priorityFee_EVVM > 0
        THEN Dual(renewUsernameMessage, "after", PayMessage(a.evvmID, a.addressNameService, a.priorityFee_EVVM, 0, a.nonce_EVVM, a.priorityFlag_EVVM))
        ELSE Dual(renewUsernameMessage, "none", NoResult)

signAddCustomMetadata_p002(a) ==
    LET addCustomMetadataMessage == IF utils = "part_000" THEN buildMessageSignedForAddCustomMetadata_p000(a.evvmID, a.identity, a.value, a.nonce) ELSE buildMessageSignedForAddCustomMetadata(a.evvmID, a.identity, a.value, a.nonce)
    IN  IF a.priorityFee_EVVM > 0
        THEN Dual(addCustomMetadataMessage, "after", PayMessage(a.evvmID, a.addressNameService, a.priorityFee_EVVM, 0, a.nonce_EVVM, a.priorityFlag_EVVM))
        ELSE Dual(addCustomMetadataMessage, "none", NoResult)

signRemoveCustomMetadata_p002(a) ==
    LET removeCustomMetadataMessage == IF utils = "part_000" THEN buildMessageSignedForRemoveCustomMetadata_p000(a.evvmID, a.identity, a.key, a.nonce) ELSE buildMessageSignedForRemoveCustomMetadata(a.evvmID, a.identity, a.key, a.nonce)
    IN  IF a.priorityFee_EVVM > 0
        THEN Dual(removeCustomMetadataMessage, "after", PayMessage(a.evvmID, a.addressNameService, a.priorityFee_EVVM, 0, a.nonce_EVVM, a.priorityFlag_EVVM))
        ELSE Dual(removeCustomMetadataMessage, "none", NoResult)

signFlushCustomMetadata_p002(a) ==
    LET flushCustomMetadataMessage == IF utils = "part_000" THEN buildMessageSignedForFlushCustomMetadata_p000(a.evvmID, a.identity, a.nonce) ELSE buildMessageSignedForFlushCustomMetadata(a.evvmID, a.identity, a.nonce)
    IN  IF a.priorityFee_EVVM > 0
        THEN Dual(flushCustomMetadataMessage, "after", PayMessage(a.evvmID, a.addressNameService, a.priorityFee_EVVM, 0, a.nonce_EVVM, a.priorityFlag_EVVM))
        ELSE Dual(flushCustomMetadataMessage, "none", NoResult)

signFlushUsername_p002(a) ==
    LET flushUsernameMessage == IF utils = "part_000" THEN buildMessageSignedForFlushUsername_p000(a.evvmID, a.username, a.nonce) ELSE buildMessageSignedForFlushUsername(a.evvmID, a.username, a.nonce)
    IN  IF a.priorityFee_EVVM > 0
        THEN Dual(flushUsernameMessage, "after", PayMessage(a.evvmID, a.addressNameService, a.priorityFee_EVVM, 0, a.nonce_EVVM, a.priorityFlag_EVVM))
        ELSE Dual(flushUsernameMessage, "none", NoResult)

\* NameServiceSignatureBuilder of part_003: seven methods always sign a pay message for the price
signPreRegistrationUsername_p003(a) ==
    LET hashPreReg == hashPreRegisteredUsername(a.username, a.clowNumber)
        preRegistrationMessage == IF utils = "part_000" THEN buildMessageSignedForPreRegistrationUsername_p000(a.evvmId, hashPreReg, a.nonce) ELSE buildMessageSignedForPreRegistrationUsername(a.evvmId, hashPreReg, a.nonce)
    IN  IF a.priorityFee_EVVM > 0
        THEN Dual(preRegistrationMessage, "after", PayMessage(a.evvmId, a.addressNameService, 0, a.priorityFee_EVVM, a.nonce_EVVM, a.priorityFlag_EVVM))
        ELSE Dual(preRegistrationMessage, "none", NoResult)

signRegistrationUsername_p003(a) ==
    LET registrationMessage == IF utils = "part_000" THEN buildMessageSignedForRegistrationUsername_p000(a.evvmId, a.username, a.clowNumber, a.nonce) ELSE buildMessageSignedForRegistrationUsername(a.evvmId, a.username, a.clowNumber, a.nonce)
        payMessage == PayMessage(a.evvmId, a.addressNameService, a.mateReward * 100, a.priorityFee_EVVM, a.nonce_EVVM, a.priorityFlag_EVVM)
    IN  Dual(registrationMessage, "before", payMessage)

signMakeOffer_p003(a) ==
    LET makeOfferMessage == IF utils = "part_000" THEN buildMessageSignedForMakeOffer_p000(a.evvmID, a.username, a.expirationDate, a.amount, a.nonce) ELSE buildMessageSignedForMakeOffer(a.evvmID, a.username, a.expirationDate, a.amount, a.nonce)
        payMessage == PayMessage(a.evvmID, a.addressNameService, a.amount, a.priorityFee_EVVM, a.nonce_EVVM, a.priorityFlag_EVVM)
    IN  Dual(makeOfferMessage, "before", payMessage)

signWithdrawOffer_p003(a) ==
    LET withdrawOfferMessage == IF utils = "part_000" THEN buildMessageSignedForWithdrawOffer_p000(a.evvmID, a.username, a.offerId, a.nonce) ELSE buildMessageSignedForWithdrawOffer(a.evvmID, a.username, a.offerId, a.nonce)
    IN  IF a.priorityFee_EVVM > 0
        THEN Dual(withdrawOfferMessage, "after", PayMessage(a.evvmID, a.addressNameService, 0, a.priorityFee_EVVM, a.nonce_EVVM, a.priorityFlag_EVVM))
        ELSE Dual(withdrawOfferMessage, "none", NoResult)

signAcceptOffer_p003(a) ==
    LET acceptOfferMessage == IF utils = "part_000" THEN buildMessageSignedForAcceptOffer_p000(a.evvmID, a.username, a.offerId, a.nonce) ELSE buildMessageSignedForAcceptOffer(a.evvmID, a.username, a.offerId, a.nonce)
    IN  IF a.priorityFee_EVVM > 0
        THEN Dual(acceptOfferMessage, "after", PayMessage(a.evvmID, a.addressNameService, 0, a.priorityFee_EVVM, a.nonce_EVVM, a.priorityFlag_EVVM))
        ELSE Dual(acceptOfferMessage, "none", NoResult)

signRenewUsername_p003(a) ==
    LET renewUsernameMessage == IF utils = "part_000" THEN buildMessageSignedForRenewUsername_p000(a.evvmID, a.username, a.nonce) ELSE buildMessageSignedForRenewUsername(a.evvmID, a.username, a.nonce)
        payMessage == PayMessage(a.evvmID, a.addressNameService, a.amountToRenew, a.priorityFee_EVVM, a.nonce_EVVM, a.priorityFlag_EVVM)
    IN  Dual(renewUsernameMessage, "before", payMessage)

signAddCustomMetadata_p003(a) ==
    LET addCustomMetadataMessage == IF utils = "part_000" THEN buildMessageSignedForAddCustomMetadata_p000(a.evvmID, a.identity, a.value, a.nonce) ELSE buildMessageSignedForAddCustomMetadata(a.evvmID, a.identity, a.value, a.nonce)
        payMessage == PayMessage(a.evvmID, a.addressNameService, a.amountToAddCustomMetadata, a.priorityFee_EVVM, a.nonce_EVVM, a.priorityFlag_EVVM)
    IN  Dual(addCustomMetadataMessage, "before", payMessage)

signRemoveCustomMetadata_p003(a) ==
    LET removeCustomMetadataMessage == IF utils = "part_000" THEN buildMessageSignedForRemoveCustomMetadata_p000(a.evvmID, a.identity, a.key, a.nonce) ELSE buildMessageSignedForRemoveCustomMetadata(a.evvmID, a.identity, a.key, a.nonce)
        payMessage == PayMessage(a.evvmID, a.addressNameService, a.amountToRemoveCustomMetadata, a.priorityFee_EVVM, a.nonce_EVVM, a.priorityFlag_EVVM)
    IN  Dual(removeCustomMetadataMessage, "before", payMessage)

signFlushCustomMetadata_p003(a) ==
    LET flushCustomMetadataMessage == IF utils = "part_000" THEN buildMessageSignedForFlushCustomMetadata_p000(a.evvmID, a.identity, a.nonce) ELSE buildMessageSignedForFlushCustomMetadata(a.evvmID, a.identity, a.nonce)
        payMessage == PayMessage(a.evvmID, a.addressNameService, a.priceToFlushCustomMetadata, a.priorityFee_EVVM, a.nonce_EVVM, a.priorityFlag_EVVM)
    IN  Dual(flushCustomMetadataMessage, "before", payMessage)

signFlushUsername_p003(a) ==
    LET flushUsernameMessage == IF utils = "part_000" THEN buildMessageSignedForFlushUsername_p000(a.evvmID, a.username, a.nonce) ELSE buildMessageSignedForFlushUsername(a.evvmID, a.username, a.nonce)
        payMessage == PayMessage(a.evvmID, a.addressNameService, a.priceToFlushUsername, a.priorityFee_EVVM, a.nonce_EVVM, a.priorityFlag_EVVM)
    IN  Dual(flushUsernameMessage, "before", payMessage)

\* GenericSignatureBuilder (generic.ts and part_005 hold the same two methods)
buildGenericMessage(evvmID, functionName, inputs) ==
    toString(evvmID) \o Comma \o functionName \o Comma \o inputs

signGenericMessage(a) == Single(Ok(buildGenericMessage(a.evvmID, a.functionName, a.inputs)))

signGenericMessage_p005(a) == Single(Ok(buildGenericMessage(a.evvmID, a.functionName, a.inputs)))

\* the public signERC191Message(message) of every builder, called directly
signMessageDirect(a) == Single(Ok(a.message))

(***************************************************************************)
(* Transaction executors.  An input record is null, undefined or an object *)
(* (for executePayMultiple: an array of objects).  The executors forward   *)
(* field values without reading them, so a field value is a token: 0 is    *)
(* undefined (the field is missing), any other number is some value.       *)
(***************************************************************************)
Null == [tag |-> "null"]
UndefinedInput == [tag |-> "undefined"]
Array(items) == [tag |-> "array", items |-> items]
Falsy(v) == v.tag \in {"null", "undefined"}

ExecThrow(k) == [kind |-> "throw", err |-> k, call |-> [none |-> TRUE]]
writeContract(abi, address, functionName, args) == [kind |-> "write", err |-> "none", call |-> [abi |-> abi, address |-> address, functionName |-> functionName, args |-> args]]

\* an object literal: its keys in the order written, and their values
Object(keys, vals) == [keys |-> keys, vals |-> vals]

\* per function: the names of its inputs, and the components of its tuple[] input if it has one
EVVM_ABI ==
    [pay |-> [inputs |-> <<"from", "to_address", "to_identity", "token", "amount", "priorityFee", "nonce", "priority", "executor", "signature">>, components |-> <<>>],
     dispersePay |-> [inputs |-> <<"from", "toData", "token", "amount", "priorityFee", "nonce", "priority", "executor", "signature">>, components |-> <<"amount", "to_address", "to_identity">>],
     payMultiple |-> [inputs |-> <<"payData">>, components |-> <<"from", "to_address", "to_identity", "token", "amount", "priorityFee", "nonce", "executor", "signature">>]]

STAKING_ABI ==
    [goldenStaking |-> [inputs |-> <<"isStaking", "amountOfStaking", "signature_EVVM">>, components |-> <<>>],
     presaleStaking |-> [inputs |-> <<"user", "isStaking", "nonce", "signature", "priorityFee_EVVM", "nonce_EVVM", "priorityFlag_EVVM", "signature_EVVM">>, components |-> <<>>],
     publicStaking |-> [inputs |-> <<"user", "isStaking", "amountOfStaking", "nonce", "signature", "priorityFee_EVVM", "nonce_EVVM", "priorityFlag_EVVM", "signature_EVVM">>, components |-> <<>>],
     publicServiceStaking |-> [inputs |-> <<"user", "service", "isStaking", "amountOfStaking", "nonce", "signature", "priorityFee_EVVM", "nonce_EVVM", "priorityFlag_EVVM", "signature_EVVM">>, components |-> <<>>]]

NAMESERVICE_ABI ==
    [preRegistrationUsername |-> [inputs |-> <<"user", "hashPreRegisteredUsername", "nonce", "signature", "priorityFee_EVVM", "nonce_EVVM", "priorityFlag_EVVM", "signature_EVVM">>, components |-> <<>>],
     registrationUsername |-> [inputs |-> <<"user", "username", "clowNumber", "nonce", "signature", "priorityFee_EVVM", "nonce_EVVM", "priorityFlag_EVVM", "signature_EVVM">>, components |-> <<>>]]

\* EVVMTransactionExecutor
executePay(inputData, evvmAddress) ==
    IF Falsy(inputData) THEN ExecThrow("Error")
    ELSE writeContract("EVVM_ABI", evvmAddress, "pay",
             <<inputData.from, inputData.to_address, inputData.to_identity, inputData.token, inputData.amount, inputData.priorityFee, inputData.nonce, inputData.priority, inputData.executor, inputData.signature>>)

executeDispersePay(inputData, evvmAddress) ==
    IF Falsy(inputData) THEN ExecThrow("Error")
    ELSE writeContract("EVVM_ABI", evvmAddress, "dispersePay",
             <<inputData.from, inputData.toData, inputData.token, inputData.amount, inputData.priorityFee, inputData.nonce, inputData.priority, inputData.executor, inputData.signature>>)

executePayMultiple_AcceptsEmpty(inputData, evvmAddress) ==
    IF Falsy(inputData) THEN ExecThrow("Error")
    ELSE LET formattedData == [i \in 1..Len(inputData.items) |->
                 LET data == inputData.items[i]
                 IN  Object(<<"from", "to_address", "to_identity", "token", "amount", "priorityFee", "nonce", "executor", "signature">>,
                            <<data.from, data.to_address, data.to_identity, data.token, data.amount, data.priorityFee, data.nonce, data.executor, data.signature>>)]
         IN  writeContract("EVVM_ABI", evvmAddress, "payMultiple", <<formattedData>>)

executePayMultiple(inputData, evvmAddress) ==
    IF Falsy(inputData) \/ Len(inputData.items) = 0 THEN ExecThrow("Error")
    ELSE LET formattedData == [i \in 1..Len(inputData.items) |->
                 LET data == inputData.items[i]
                 IN  Object(<<"from", "to_address", "to_identity", "token", "amount", "priorityFee", "nonce", "executor", "signature">>,
                            <<data.from, data.to_address, data.to_identity, data.token, data.amount, data.priorityFee, data.nonce, data.executor, data.signature>>)]
         IN  writeContract("EVVM_ABI", evvmAddress, "payMultiple", <<formattedData>>)

\* StakingTransactionExecutor
executeGoldenStaking(inputData, stakingAddress) ==
    IF Falsy(inputData) THEN ExecThrow("Error")
    ELSE writeContract("STAKING_ABI", stakingAddress, "goldenStaking",
             <<inputData.isStaking, inputData.amountOfStaking, inputData.signature_EVVM>>)

executePresaleStaking_Swapped(inputData, stakingAddress) ==
    IF Falsy(inputData) THEN ExecThrow("Error")
    ELSE writeContract("STAKING_ABI", stakingAddress, "presaleStaking",
             <<inputData.user, inputData.isStaking, inputData.signature, inputData.nonce, inputData.priorityFee_EVVM, inputData.nonce_EVVM, inputData.priorityFlag_EVVM, inputData.signature_EVVM>>)

executePresaleStaking(inputData, stakingAddress) ==
    IF Falsy(inputData) THEN ExecThrow("Error")
    ELSE writeContract("STAKING_ABI", stakingAddress, "presaleStaking",
             <<inputData.user, inputData.isStaking, inputData.nonce, inputData.signature, inputData.priorityFee_EVVM, inputData.nonce_EVVM, inputData.priorityFlag_EVVM, inputData.signature_EVVM>>)

executePublicStaking(inputData, stakingAddress) ==
    IF Falsy(inputData) THEN ExecThrow("Error")
    ELSE writeContract("STAKING_ABI", stakingAddress, "publicStaking",
             <<inputData.user, inputData.isStaking, inputData.amountOfStaking, inputData.nonce, inputData.signature, inputData.priorityFee_EVVM, inputData.nonce_EVVM, inputData.priorityFlag_EVVM, inputData.signature_EVVM>>)

executePublicServiceStaking(inputData, stakingAddress) ==
    IF Falsy(inputData) THEN ExecThrow("Error")
    ELSE writeContract("STAKING_ABI", stakingAddress, "publicServiceStaking",
             <<inputData.user, inputData.service, inputData.isStaking, inputData.amountOfStaking, inputData.nonce, inputData.signature, inputData.priorityFee_EVVM, inputData.nonce_EVVM, inputData.priorityFlag_EVVM, inputData.signature_EVVM>>)

\* NameServiceTransactionExecutor
executePreRegistrationUsername(inputData, nameServiceAddress) ==
    IF Falsy(inputData) THEN ExecThrow("Error")
    ELSE writeContract("NAMESERVICE_ABI", nameServiceAddress, "preRegistrationUsername",
             <<inputData.user, inputData.hashPreRegisteredUsername, inputData.nonce, inputData.signature, inputData.priorityFee_EVVM, inputData.nonce_EVVM, inputData.priorityFlag_EVVM, inputData.signature_EVVM>>)

executeRegistrationUsername(inputData, nameServiceAddress) ==
    IF Falsy(inputData) THEN ExecThrow("Error")
    ELSE writeContract("NAMESERVICE_ABI", nameServiceAddress, "registrationUsername",
             <<inputData.user, inputData.username, inputData.clowNumber, inputData.nonce, inputData.signature, inputData.priorityFee_EVVM, inputData.nonce_EVVM, inputData.priorityFlag_EVVM, inputData.signature_EVVM>>)

(***************************************************************************)
(* Inputs of the builder and executor invocations.                         *)
(***************************************************************************)
BuilderEvvmIDs == {1}
ContractAddresses == {Str(<<"0", "x", "a", "B">>), Undefined}
Usernames == {<<"B", "o", "b">>}
Prices == {0, 7}
Recipients2 == {<<>>, <<[amount |-> 7, to_address |-> <<"0", "x", "a", "B">>, to_identity |-> <<>>]>>}
Signatures == {"0xsigA", "0xsigB"}
WalletErrors == {"UserRejectedRequest", "Disconnected"}
TxHashes == {"0xhash1", "0xhash2"}
ChainErrors == {"Reverted", "NetworkError"}
ContractTargets == {"0xContract"}
WalletClients == {"walletClient"}
Accounts == {"0xAlice", "0xBob"}

SignPayArgs == [evvmID : BuilderEvvmIDs, to : Recipients, tokenAddress : {Str(<<"0", "x", "c", "D">>)}, amount : {7}, priorityFee : Fees, nonce : {1}, priorityFlag : {TRUE}, executor : {Str(<<"0", "X", "E", "f">>)}]
SignDispersePayArgs == [evvmID : BuilderEvvmIDs, toData : Recipients2, tokenAddress : {Str(<<"0", "x", "c", "D">>)}, amount : {7}, priorityFee : Fees, nonce : {1}, priorityFlag : {TRUE}, executor : {Str(<<"0", "X", "E", "f">>)}]
SignGoldenStakingArgs == [evvmID : BuilderEvvmIDs, stakingAddress : ContractAddresses, totalPrice : Prices, nonceEVVM : {1234}, priorityFlag : {FALSE}]
SignPresaleStakingArgs == [evvmID : BuilderEvvmIDs, stakingAddress : ContractAddresses, isStaking : BOOLEAN, nonce : {1}, priorityFee_EVVM : Fees, totalPrice : Prices, nonce_EVVM : {1234}, priorityFlag_EVVM : {TRUE}]
SignPublicStakingArgs == [evvmID : BuilderEvvmIDs, stakingAddress : ContractAddresses, isStaking : BOOLEAN, stakingAmount : {7}, nonceStaking : {1}, totalPrice : Prices, priorityFee : Fees, nonceEVVM : {1234}, priorityFlag : {TRUE}]
SignPreRegistrationUsernameArgs_p002 == [evvmID : BuilderEvvmIDs, addressNameService : ContractAddresses, username : Usernames, clowNumber : {3}, nonce : {1}, priorityFee_EVVM : Fees, nonce_EVVM : {1234}, priorityFlag_EVVM : {TRUE}]
SignRegistrationUsernameArgs_p002 == [evvmID : BuilderEvvmIDs, addressNameService : ContractAddresses, username : Usernames, clowNumber : {3}, nonce : {1}, priorityFee_EVVM : Fees, nonce_EVVM : {1234}, priorityFlag_EVVM : {TRUE}]
SignMakeOfferArgs_p002 == [evvmID : BuilderEvvmIDs, addressNameService : ContractAddresses, username : Usernames, expireDate : {12345}, amount : Prices, nonce : {1}, priorityFee_EVVM : Fees, nonce_EVVM : {1234}, priorityFlag_EVVM : {TRUE}]
SignWithdrawOfferArgs_p002 == [evvmID : BuilderEvvmIDs, addressNameService : ContractAddresses, username : Usernames, offerID : {3}, nonce : {1}, priorityFee_EVVM : Fees, nonce_EVVM : {1234}, priorityFlag_EVVM : {TRUE}]
SignAcceptOfferArgs_p002 == [evvmID : BuilderEvvmIDs, addressNameService : ContractAddresses, username : Usernames, offerID : {3}, nonce : {1}, priorityFee_EVVM : Fees, nonce_EVVM : {1234}, priorityFlag_EVVM : {TRUE}]
SignRenewUsernameArgs_p002 == [evvmID : BuilderEvvmIDs, addressNameService : ContractAddresses, username : Usernames, nonce : {1}, priorityFee_EVVM : Fees, nonce_EVVM : {1234}, priorityFlag_EVVM : {TRUE}]
SignAddCustomMetadataArgs_p002 == [evvmID : BuilderEvvmIDs, addressNameService : ContractAddresses, identity : Usernames, value : {<<"c">>}, nonce : {1}, priorityFee_EVVM : Fees, nonce_EVVM : {1234}, priorityFlag_EVVM : {TRUE}]
SignRemoveCustomMetadataArgs_p002 == [evvmID : BuilderEvvmIDs, addressNameService : ContractAddresses, identity : Usernames, key : {3}, nonce : {1}, priorityFee_EVVM : Fees, nonce_EVVM : {1234}, priorityFlag_EVVM : {TRUE}]
SignFlushCustomMetadataArgs_p002 == [evvmID : BuilderEvvmIDs, addressNameService : ContractAddresses, identity : Usernames, nonce : {1}, priorityFee_EVVM : Fees, nonce_EVVM : {1234}, priorityFlag_EVVM : {TRUE}]
SignFlushUsernameArgs_p002 == [evvmID : BuilderEvvmIDs, addressNameService : ContractAddresses, username : Usernames, nonce : {1}, priorityFee_EVVM : Fees, nonce_EVVM : {1234}, priorityFlag_EVVM : {TRUE}]
SignPreRegistrationUsernameArgs_p003 == [evvmId : BuilderEvvmIDs, addressNameService : ContractAddresses, username : Usernames, clowNumber : {3}, nonce : {1}, priorityFee_EVVM : Fees, nonce_EVVM : {1234}, priorityFlag_EVVM : {TRUE}]
SignRegistrationUsernameArgs_p003 == [evvmId : BuilderEvvmIDs, addressNameService : ContractAddresses, username : Usernames, clowNumber : {3}, nonce : {1}, mateReward : Prices, priorityFee_EVVM : Fees, nonce_EVVM : {1234}, priorityFlag_EVVM : {TRUE}]
SignMakeOfferArgs_p003 == [evvmID : BuilderEvvmIDs, addressNameService : ContractAddresses, username : Usernames, expirationDate : {12345}, amount : Prices, nonce : {1}, priorityFee_EVVM : Fees, nonce_EVVM : {1234}, priorityFlag_EVVM : {TRUE}]
SignWithdrawOfferArgs_p003 == [evvmID : BuilderEvvmIDs, addressNameService : ContractAddresses, username : Usernames, offerId : {3}, nonce : {1}, priorityFee_EVVM : Fees, nonce_EVVM : {1234}, priorityFlag_EVVM : {TRUE}]
SignAcceptOfferArgs_p003 == [evvmID : BuilderEvvmIDs, addressNameService : ContractAddresses, username : Usernames, offerId : {3}, nonce : {1}, priorityFee_EVVM : Fees, nonce_EVVM : {1234}, priorityFlag_EVVM : {TRUE}]
SignRenewUsernameArgs_p003 == [evvmID : BuilderEvvmIDs, addressNameService : ContractAddresses, username : Usernames, nonce : {1}, amountToRenew : Prices, priorityFee_EVVM : Fees, nonce_EVVM : {1234}, priorityFlag_EVVM : {TRUE}]
SignAddCustomMetadataArgs_p003 == [evvmID : BuilderEvvmIDs, addressNameService : ContractAddresses, identity : Usernames, value : {<<"c">>}, nonce : {1}, amountToAddCustomMetadata : Prices, priorityFee_EVVM : Fees, nonce_EVVM : {1234}, priorityFlag_EVVM : {TRUE}]
SignRemoveCustomMetadataArgs_p003 == [evvmID : BuilderEvvmIDs, addressNameService : ContractAddresses, identity : Usernames, key : {3}, nonce : {1}, amountToRemoveCustomMetadata : Prices, priorityFee_EVVM : Fees, nonce_EVVM : {1234}, priorityFlag_EVVM : {TRUE}]
SignFlushCustomMetadataArgs_p003 == [evvmID : BuilderEvvmIDs, addressNameService : ContractAddresses, identity : Usernames, nonce : {1}, priceToFlushCustomMetadata : Prices, priorityFee_EVVM : Fees, nonce_EVVM : {1234}, priorityFlag_EVVM : {TRUE}]
SignFlushUsernameArgs_p003 == [evvmID : BuilderEvvmIDs, addressNameService : ContractAddresses, username : Usernames, nonce : {1}, priceToFlushUsername : Prices, priorityFee_EVVM : Fees, nonce_EVVM : {1234}, priorityFlag_EVVM : {TRUE}]
SignGenericMessageArgs == [evvmID : BuilderEvvmIDs, functionName : {<<"p", "a", "y">>}, inputs : MetadataValues]
SignGenericMessageArgs_p005 == [evvmID : BuilderEvvmIDs, functionName : {<<"p", "a", "y">>}, inputs : MetadataValues]
SignERC191MessageArgs == [message : MetadataValues]
PayInputDatas == {Null, UndefinedInput, [tag |-> "object", from |-> 1, to_address |-> 2, to_identity |-> 3, token |-> 4, amount |-> 5, priorityFee |-> 6, nonce |-> 7, priority |-> 8, executor |-> 9, signature |-> 10], [tag |-> "object", from |-> 1, to_address |-> 2, to_identity |-> 3, token |-> 4, amount |-> 5, priorityFee |-> 6, nonce |-> 7, priority |-> 8, executor |-> 9, signature |-> 0]}
DispersePayInputDatas == {Null, UndefinedInput, [tag |-> "object", from |-> 1, toData |-> 2, token |-> 3, amount |-> 4, priorityFee |-> 5, nonce |-> 6, priority |-> 7, executor |-> 8, signature |-> 9], [tag |-> "object", from |-> 1, toData |-> 2, token |-> 3, amount |-> 4, priorityFee |-> 5, nonce |-> 6, priority |-> 7, executor |-> 8, signature |-> 0]}
GoldenStakingInputDatas == {Null, UndefinedInput, [tag |-> "object", isStaking |-> 1, amountOfStaking |-> 2, signature_EVVM |-> 3], [tag |-> "object", isStaking |-> 1, amountOfStaking |-> 2, signature_EVVM |-> 0]}
PresaleStakingInputDatas == {Null, UndefinedInput, [tag |-> "object", user |-> 1, isStaking |-> 2, nonce |-> 3, signature |-> 4, priorityFee_EVVM |-> 5, nonce_EVVM |-> 6, priorityFlag_EVVM |-> 7, signature_EVVM |-> 8], [tag |-> "object", user |-> 1, isStaking |-> 2, nonce |-> 3, signature |-> 4, priorityFee_EVVM |-> 5, nonce_EVVM |-> 6, priorityFlag_EVVM |-> 7, signature_EVVM |-> 0]}
PublicStakingInputDatas == {Null, UndefinedInput, [tag |-> "object", user |-> 1, isStaking |-> 2, amountOfStaking |-> 3, nonce |-> 4, signature |-> 5, priorityFee_EVVM |-> 6, nonce_EVVM |-> 7, priorityFlag_EVVM |-> 8, signature_EVVM |-> 9], [tag |-> "object", user |-> 1, isStaking |-> 2, amountOfStaking |-> 3, nonce |-> 4, signature |-> 5, priorityFee_EVVM |-> 6, nonce_EVVM |-> 7, priorityFlag_EVVM |-> 8, signature_EVVM |-> 0]}
PublicServiceStakingInputDatas == {Null, UndefinedInput, [tag |-> "object", user |-> 1, service |-> 2, isStaking |-> 3, amountOfStaking |-> 4, nonce |-> 5, signature |-> 6, priorityFee_EVVM |-> 7, nonce_EVVM |-> 8, priorityFlag_EVVM |-> 9, signature_EVVM |-> 10], [tag |-> "object", user |-> 1, service |-> 2, isStaking |-> 3, amountOfStaking |-> 4, nonce |-> 5, signature |-> 6, priorityFee_EVVM |-> 7, nonce_EVVM |-> 8, priorityFlag_EVVM |-> 9, signature_EVVM |-> 0]}
PreRegistrationUsernameInputDatas == {Null, UndefinedInput, [tag |-> "object", user |-> 1, hashPreRegisteredUsername |-> 2, nonce |-> 3, signature |-> 4, priorityFee_EVVM |-> 5, nonce_EVVM |-> 6, priorityFlag_EVVM |-> 7, signature_EVVM |-> 8], [tag |-> "object", user |-> 1, hashPreRegisteredUsername |-> 2, nonce |-> 3, signature |-> 4, priorityFee_EVVM |-> 5, nonce_EVVM |-> 6, priorityFlag_EVVM |-> 7, signature_EVVM |-> 0]}
RegistrationUsernameInputDatas == {Null, UndefinedInput, [tag |-> "object", user |-> 1, username |-> 2, clowNumber |-> 3, nonce |-> 4, signature |-> 5, priorityFee_EVVM |-> 6, nonce_EVVM |-> 7, priorityFlag_EVVM |-> 8, signature_EVVM |-> 9], [tag |-> "object", user |-> 1, username |-> 2, clowNumber |-> 3, nonce |-> 4, signature |-> 5, priorityFee_EVVM |-> 6, nonce_EVVM |-> 7, priorityFlag_EVVM |-> 8, signature_EVVM |-> 0]}
PayInputDataLists == {Null, UndefinedInput, Array(<<>>), Array(<<[tag |-> "object", from |-> 1, to_address |-> 2, to_identity |-> 3, token |-> 4, amount |-> 5, priorityFee |-> 6, nonce |-> 7, priority |-> 8, executor |-> 9, signature |-> 10]>>), Array(<<[tag |-> "object", from |-> 1, to_address |-> 2, to_identity |-> 3, token |-> 4, amount |-> 5, priorityFee |-> 6, nonce |-> 7, priority |-> 8, executor |-> 9, signature |-> 0], [tag |-> "object", from |-> 1, to_address |-> 2, to_identity |-> 3, token |-> 4, amount |-> 5, priorityFee |-> 6, nonce |-> 7, priority |-> 8, executor |-> 9, signature |-> 10]>>)}

BuilderMethods == {"signPay", "signDispersePay", "signGoldenStaking", "signPresaleStaking", "signPublicStaking", "signPreRegistrationUsername_p002", "signRegistrationUsername_p002", "signMakeOffer_p002", "signWithdrawOffer_p002", "signAcceptOffer_p002", "signRenewUsername_p002", "signAddCustomMetadata_p002", "signRemoveCustomMetadata_p002", "signFlushCustomMetadata_p002", "signFlushUsername_p002", "signPreRegistrationUsername_p003", "signRegistrationUsername_p003", "signMakeOffer_p003", "signWithdrawOffer_p003", "signAcceptOffer_p003", "signRenewUsername_p003", "signAddCustomMetadata_p003", "signRemoveCustomMetadata_p003", "signFlushCustomMetadata_p003", "signFlushUsername_p003", "signGenericMessage", "signGenericMessage_p005", "signERC191Message"}
DualMethods == BuilderMethods \ {"signPay", "signDispersePay", "signGoldenStaking", "signGenericMessage", "signGenericMessage_p005", "signERC191Message"}
ExecutorMethods == {"executePay", "executeDispersePay", "executeGoldenStaking", "executePresaleStaking", "executePublicStaking", "executePublicServiceStaking", "executePreRegistrationUsername", "executeRegistrationUsername", "executePayMultiple"}

\* the plan of builder invocation c
Plan(c) ==
    CASE c.method = "signPay" -> signPay(c.args)
      [] c.method = "signDispersePay" -> signDispersePay(c.args)
      [] c.method = "signGoldenStaking" -> signGoldenStaking(c.args)
      [] c.method = "signPresaleStaking" -> signPresaleStaking(c.args)
      [] c.method = "signPublicStaking" -> signPublicStaking(c.args)
      [] c.method = "signPreRegistrationUsername_p002" -> signPreRegistrationUsername_p002(c.args)
      [] c.method = "signRegistrationUsername_p002" -> signRegistrationUsername_p002(c.args)
      [] c.method = "signMakeOffer_p002" -> signMakeOffer_p002(c.args)
      [] c.method = "signWithdrawOffer_p002" -> signWithdrawOffer_p002(c.args)
      [] c.method = "signAcceptOffer_p002" -> signAcceptOffer_p002(c.args)
      [] c.method = "signRenewUsername_p002" -> signRenewUsername_p002(c.args)
      [] c.method = "signAddCustomMetadata_p002" -> signAddCustomMetadata_p002(c.args)
      [] c.method = "signRemoveCustomMetadata_p002" -> signRemoveCustomMetadata_p002(c.args)
      [] c.method = "signFlushCustomMetadata_p002" -> signFlushCustomMetadata_p002(c.args)
      [] c.method = "signFlushUsername_p002" -> signFlushUsername_p002(c.args)
      [] c.method = "signPreRegistrationUsername_p003" -> signPreRegistrationUsername_p003(c.args)
      [] c.method = "signRegistrationUsername_p003" -> signRegistrationUsername_p003(c.args)
      [] c.method = "signMakeOffer_p003" -> signMakeOffer_p003(c.args)
      [] c.method = "signWithdrawOffer_p003" -> signWithdrawOffer_p003(c.args)
      [] c.method = "signAcceptOffer_p003" -> signAcceptOffer_p003(c.args)
      [] c.method = "signRenewUsername_p003" -> signRenewUsername_p003(c.args)
      [] c.method = "signAddCustomMetadata_p003" -> signAddCustomMetadata_p003(c.args)
      [] c.method = "signRemoveCustomMetadata_p003" -> signRemoveCustomMetadata_p003(c.args)
      [] c.method = "signFlushCustomMetadata_p003" -> signFlushCustomMetadata_p003(c.args)
      [] c.method = "signFlushUsername_p003" -> signFlushUsername_p003(c.args)
      [] c.method = "signGenericMessage" -> signGenericMessage(c.args)
      [] c.method = "signGenericMessage_p005" -> signGenericMessage_p005(c.args)
      [] c.method = "signERC191Message" -> signMessageDirect(c.args)

\* what executor invocation c does before it returns its promise
Exec(c) ==
    CASE c.method = "executePay" -> executePay(c.args.inputData, c.args.address)
      [] c.method = "executeDispersePay" -> executeDispersePay(c.args.inputData, c.args.address)
      [] c.method = "executeGoldenStaking" -> executeGoldenStaking(c.args.inputData, c.args.address)
      [] c.method = "executePresaleStaking" -> executePresaleStaking(c.args.inputData, c.args.address)
      [] c.method = "executePublicStaking" -> executePublicStaking(c.args.inputData, c.args.address)
      [] c.method = "executePublicServiceStaking" -> executePublicServiceStaking(c.args.inputData, c.args.address)
      [] c.method = "executePreRegistrationUsername" -> executePreRegistrationUsername(c.args.inputData, c.args.address)
      [] c.method = "executeRegistrationUsername" -> executeRegistrationUsername(c.args.inputData, c.args.address)
      [] c.method = "executePayMultiple" -> executePayMultiple(c.args.inputData, c.args.address)

(***************************************************************************)
(* Running an invocation.  An async method runs to its first await when it *)
(* is called (Started, Submitted) and goes on when the awaited promise     *)
(* settles (Continued, Returned).                                          *)
(***************************************************************************)
\* walletClient.signMessage({ account: this.account, message })
Request_Prefixed(role, message) == [role |-> role, account |-> builder.account, msg |-> <<"E", "I", "P", "1", "9", "1", ":">> \o message, reply |-> Pending]

Request(role, message) == [role |-> role, account |-> builder.account, msg |-> message, reply |-> Pending]
Write(call) == [call |-> call, reply |-> Pending]
Step(p, r, o) == [pc |-> p, requests |-> r, outcome |-> o]

\* signERC191Message: return await walletClient.signMessage({account, message})
signERC191Message_Wrapped(reply) ==
    IF reply.kind = "rejected" THEN Rejected("SigningFailed") ELSE reply

signERC191Message(reply) == reply

\* the result object { paySignature, actionSignature }; paySignature may be undefined
DualSignatureResult(paySignature, actionSignature) == [paySignature |-> paySignature, actionSignature |-> actionSignature]

Started_Cached(d) ==
        IF pc = "done" /\ outcome.kind = "resolved" THEN Step("done", <<>>, outcome)
        ELSE IF d.action.kind # "ok" THEN Step("done", <<>>, Rejected(d.action.kind))
        ELSE IF d.pay = "before" /\ d.payMessage.kind # "ok" THEN Step("done", <<>>, Rejected(d.payMessage.kind))
        ELSE Step("awaitAction", <<Request(IF d.returns = "pair" THEN "action" ELSE "message", d.action.msg)>>, Pending)

\* both messages handed to the wallet at once, as Promise.all would
Started_Parallel(d) ==
        IF d.action.kind # "ok" THEN Step("done", <<>>, Rejected(d.action.kind))
        ELSE IF d.pay = "before" /\ d.payMessage.kind # "ok" THEN Step("done", <<>>, Rejected(d.payMessage.kind))
        ELSE IF d.pay = "before" THEN Step("awaitPay", <<Request("action", d.action.msg), Request("pay", d.payMessage.msg)>>, Pending)
        ELSE Step("awaitAction", <<Request(IF d.returns = "pair" THEN "action" ELSE "message", d.action.msg)>>, Pending)

\* from the call to the first await: the messages built up front, then the first signing request
Started(d) ==
        IF d.action.kind # "ok" THEN Step("done", <<>>, Rejected(d.action.kind))
        ELSE IF d.pay = "before" /\ d.payMessage.kind # "ok" THEN Step("done", <<>>, Rejected(d.payMessage.kind))
        ELSE Step("awaitAction", <<Request(IF d.returns = "pair" THEN "action" ELSE "message", d.action.msg)>>, Pending)

Continued_KeepsAction(d, reqs) ==
    LET n == Len(reqs)
        got == signERC191Message(reqs[n].reply)
    IN  IF got.kind = "rejected"
        THEN IF n = 2
             THEN Step("done", reqs, Resolved(DualSignatureResult("undefined", signERC191Message(reqs[1].reply).val.signature)))
             ELSE Step("done", reqs, Rejected(got.err))
        ELSE IF n = 2
        THEN Step("done", reqs, Resolved(DualSignatureResult(got.val.signature, signERC191Message(reqs[1].reply).val.signature)))
        ELSE IF d.returns = "signature" THEN Step("done", reqs, Resolved([signature |-> got.val.signature]))
        ELSE IF d.pay = "none" THEN Step("done", reqs, Resolved(DualSignatureResult("undefined", got.val.signature)))
        ELSE IF d.payMessage.kind # "ok" THEN Step("done", reqs, Rejected(d.payMessage.kind))
        ELSE Step("awaitPay", Append(reqs, Request("pay", d.payMessage.msg)), Pending)

Continued_Retry(d, reqs) ==
    LET n == Len(reqs)
        got == signERC191Message(reqs[n].reply)
    IN  IF got.kind = "rejected"
        THEN IF n = 1
             THEN Step("awaitAction", Append(reqs, Request(reqs[n].role, reqs[n].msg)), Pending)
             ELSE Step("done", reqs, Rejected(got.err))
        ELSE IF n = 2
        THEN Step("done", reqs, Resolved(DualSignatureResult(got.val.signature, signERC191Message(reqs[1].reply).val.signature)))
        ELSE IF d.returns = "signature" THEN Step("done", reqs, Resolved([signature |-> got.val.signature]))
        ELSE IF d.pay = "none" THEN Step("done", reqs, Resolved(DualSignatureResult("undefined", got.val.signature)))
        ELSE IF d.payMessage.kind # "ok" THEN Step("done", reqs, Rejected(d.payMessage.kind))
        ELSE Step("awaitPay", Append(reqs, Request("pay", d.payMessage.msg)), Pending)

\* the pay message kept in a field of the instance, where a later invocation overwrites it
Continued_SharedField(d, reqs) ==
    LET n == Len(reqs)
        got == signERC191Message(reqs[n].reply)
        payMessage == IF other.pc # "idle" /\ Plan(other.cur).payMessage.kind = "ok" THEN Plan(other.cur).payMessage ELSE d.payMessage
    IN  IF got.kind = "rejected" THEN Step("done", reqs, Rejected(got.err))
        ELSE IF n = 2
        THEN Step("done", reqs, Resolved(DualSignatureResult(got.val.signature, signERC191Message(reqs[1].reply).val.signature)))
        ELSE IF d.returns = "signature" THEN Step("done", reqs, Resolved([signature |-> got.val.signature]))
        ELSE IF d.pay = "none" THEN Step("done", reqs, Resolved(DualSignatureResult("undefined", got.val.signature)))
        ELSE IF d.payMessage.kind # "ok" THEN Step("done", reqs, Rejected(d.payMessage.kind))
        ELSE Step("awaitPay", Append(reqs, Request("pay", payMessage.msg)), Pending)

\* from the settling of the awaited signing request reqs[Len(reqs)] to the next await or the end
Continued(d, reqs) ==
    LET n == Len(reqs)
        got == signERC191Message(reqs[n].reply)
    IN  IF got.kind = "rejected" THEN Step("done", reqs, Rejected(got.err))
        ELSE IF n = 2
        THEN Step("done", reqs, Resolved(DualSignatureResult(got.val.signature, signERC191Message(reqs[1].reply).val.signature)))
        ELSE IF d.returns = "signature" THEN Step("done", reqs, Resolved([signature |-> got.val.signature]))
        ELSE IF d.pay = "none" THEN Step("done", reqs, Resolved(DualSignatureResult("undefined", got.val.signature)))
        ELSE IF d.payMessage.kind # "ok" THEN Step("done", reqs, Rejected(d.payMessage.kind))
        ELSE Step("awaitPay", Append(reqs, Request("pay", d.payMessage.msg)), Pending)

\* an executor method up to its return: the guard, then the one writeContract call
Submitted(c) ==
    LET x == Exec(c)
    IN  IF x.kind = "throw" THEN [pc |-> "done", writes |-> <<>>, outcome |-> Rejected(x.err)]
        ELSE [pc |-> "awaitWrite", writes |-> <<Write(x.call)>>, outcome |-> Pending]

Returned_Wrapped(reply) ==
    IF reply.kind = "rejected" THEN Rejected("Error") ELSE reply

\* return writeContract(...): the method's promise settles as writeContract's does
Returned(reply) == reply

\* The builders' amounts stay below 1000, where toLocaleString inserts no group
\* separator in any locale: one locale stands for all of them.
InitClient ==
    /\ locale = "en-US"
    /\ phase = "idle"
    /\ obs = NoObs
    /\ again = NoResult
    /\ nCalls = 0
    /\ utils \in Files
    /\ cur = NoInvocation
    /\ pc = "idle"
    /\ requests = <<>>
    /\ writes = <<>>
    /\ outcome = Pending
    /\ prev = NoPrev
    /\ nInv = 0
    /\ builder \in [walletClient : WalletClients, account : Accounts]
    /\ other = NoOther

InvokeSignPay ==
    /\ pc = "idle"
    /\ \E a \in SignPayArgs :
           LET s == Started(signPay(a))
           IN  /\ cur' = [method |-> "signPay", args |-> a]
               /\ pc' = s.pc
               /\ requests' = s.requests
               /\ outcome' = s.outcome
    /\ nInv' = nInv + 1
    /\ UNCHANGED <<locale, canonVars, builder, other, utils, writes, prev>>

InvokeSignDispersePay ==
    /\ pc = "idle"
    /\ \E a \in SignDispersePayArgs :
           LET s == Started(signDispersePay(a))
           IN  /\ cur' = [method |-> "signDispersePay", args |-> a]
               /\ pc' = s.pc
               /\ requests' = s.requests
               /\ outcome' = s.outcome
    /\ nInv' = nInv + 1
    /\ UNCHANGED <<locale, canonVars, builder, other, utils, writes, prev>>

InvokeSignGoldenStaking ==
    /\ pc = "idle"
    /\ \E a \in SignGoldenStakingArgs :
           LET s == Started(signGoldenStaking(a))
           IN  /\ cur' = [method |-> "signGoldenStaking", args |-> a]
               /\ pc' = s.pc
               /\ requests' = s.requests
               /\ outcome' = s.outcome
    /\ nInv' = nInv + 1
    /\ UNCHANGED <<locale, canonVars, builder, other, utils, writes, prev>>

InvokeSignPresaleStaking ==
    /\ pc = "idle"
    /\ \E a \in SignPresaleStakingArgs :
           LET s == Started(signPresaleStaking(a))
           IN  /\ cur' = [method |-> "signPresaleStaking", args |-> a]
               /\ pc' = s.pc
               /\ requests' = s.requests
               /\ outcome' = s.outcome
    /\ nInv' = nInv + 1
    /\ UNCHANGED <<locale, canonVars, builder, other, utils, writes, prev>>

InvokeSignPublicStaking ==
    /\ pc = "idle"
    /\ \E a \in SignPublicStakingArgs :
           LET s == Started(signPublicStaking(a))
           IN  /\ cur' = [method |-> "signPublicStaking", args |-> a]
               /\ pc' = s.pc
               /\ requests' = s.requests
               /\ outcome' = s.outcome
    /\ nInv' = nInv + 1
    /\ UNCHANGED <<locale, canonVars, builder, other, utils, writes, prev>>

InvokeSignPreRegistrationUsername_p002 ==
    /\ pc = "idle"
    /\ \E a \in SignPreRegistrationUsernameArgs_p002 :
           LET s == Started(signPreRegistrationUsername_p002(a))
           IN  /\ cur' = [method |-> "signPreRegistrationUsername_p002", args |-> a]
               /\ pc' = s.pc
               /\ requests' = s.requests
               /\ outcome' = s.outcome
    /\ nInv' = nInv + 1
    /\ UNCHANGED <<locale, canonVars, builder, other, utils, writes, prev>>

InvokeSignRegistrationUsername_p002 ==
    /\ pc = "idle"
    /\ \E a \in SignRegistrationUsernameArgs_p002 :
           LET s == Started(signRegistrationUsername_p002(a))
           IN  /\ cur' = [method |-> "signRegistrationUsername_p002", args |-> a]
               /\ pc' = s.pc
               /\ requests' = s.requests
               /\ outcome' = s.outcome
    /\ nInv' = nInv + 1
    /\ UNCHANGED <<locale, canonVars, builder, other, utils, writes, prev>>

InvokeSignMakeOffer_p002 ==
    /\ pc = "idle"
    /\ \E a \in SignMakeOfferArgs_p002 :
           LET s == Started(signMakeOffer_p002(a))
           IN  /\ cur' = [method |-> "signMakeOffer_p002", args |-> a]
               /\ pc' = s.pc
               /\ requests' = s.requests
               /\ outcome' = s.outcome
    /\ nInv' = nInv + 1
    /\ UNCHANGED <<locale, canonVars, builder, other, utils, writes, prev>>

InvokeSignWithdrawOffer_p002 ==
    /\ pc = "idle"
    /\ \E a \in SignWithdrawOfferArgs_p002 :
           LET s == Started(signWithdrawOffer_p002(a))
           IN  /\ cur' = [method |-> "signWithdrawOffer_p002", args |-> a]
               /\ pc' = s.pc
               /\ requests' = s.requests
               /\ outcome' = s.outcome
    /\ nInv' = nInv + 1
    /\ UNCHANGED <<locale, canonVars, builder, other, utils, writes, prev>>

InvokeSignAcceptOffer_p002 ==
    /\ pc = "idle"
    /\ \E a \in SignAcceptOfferArgs_p002 :
           LET s == Started(signAcceptOffer_p002(a))
           IN  /\ cur' = [method |-> "signAcceptOffer_p002", args |-> a]
               /\ pc' = s.pc
               /\ requests' = s.requests
               /\ outcome' = s.outcome
    /\ nInv' = nInv + 1
    /\ UNCHANGED <<locale, canonVars, builder, other, utils, writes, prev>>

InvokeSignRenewUsername_p002 ==
    /\ pc = "idle"
    /\ \E a \in SignRenewUsernameArgs_p002 :
           LET s == Started(signRenewUsername_p002(a))
           IN  /\ cur' = [method |-> "signRenewUsername_p002", args |-> a]
               /\ pc' = s.pc
               /\ requests' = s.requests
               /\ outcome' = s.outcome
    /\ nInv' = nInv + 1
    /\ UNCHANGED <<locale, canonVars, builder, other, utils, writes, prev>>

InvokeSignAddCustomMetadata_p002 ==
    /\ pc = "idle"
    /\ \E a \in SignAddCustomMetadataArgs_p002 :
           LET s == Started(signAddCustomMetadata_p002(a))
           IN  /\ cur' = [method |-> "signAddCustomMetadata_p002", args |-> a]
               /\ pc' = s.pc
               /\ requests' = s.requests
               /\ outcome' = s.outcome
    /\ nInv' = nInv + 1
    /\ UNCHANGED <<locale, canonVars, builder, other, utils, writes, prev>>

InvokeSignRemoveCustomMetadata_p002 ==
    /\ pc = "idle"
    /\ \E a \in SignRemoveCustomMetadataArgs_p002 :
           LET s == Started(signRemoveCustomMetadata_p002(a))
           IN  /\ cur' = [method |-> "signRemoveCustomMetadata_p002", args |-> a]
               /\ pc' = s.pc
               /\ requests' = s.requests
               /\ outcome' = s.outcome
    /\ nInv' = nInv + 1
    /\ UNCHANGED <<locale, canonVars, builder, other, utils, writes, prev>>

InvokeSignFlushCustomMetadata_p002 ==
    /\ pc = "idle"
    /\ \E a \in SignFlushCustomMetadataArgs_p002 :
           LET s == Started(signFlushCustomMetadata_p002(a))
           IN  /\ cur' = [method |-> "signFlushCustomMetadata_p002", args |-> a]
               /\ pc' = s.pc
               /\ requests' = s.requests
               /\ outcome' = s.outcome
    /\ nInv' = nInv + 1
    /\ UNCHANGED <<locale, canonVars, builder, other, utils, writes, prev>>

InvokeSignFlushUsername_p002 ==
    /\ pc = "idle"
    /\ \E a \in SignFlushUsernameArgs_p002 :
           LET s == Started(signFlushUsername_p002(a))
           IN  /\ cur' = [method |-> "signFlushUsername_p002", args |-> a]
               /\ pc' = s.pc
               /\ requests' = s.requests
               /\ outcome' = s.outcome
    /\ nInv' = nInv + 1
    /\ UNCHANGED <<locale, canonVars, builder, other, utils, writes, prev>>

InvokeSignPreRegistrationUsername_p003 ==
    /\ pc = "idle"
    /\ \E a \in SignPreRegistrationUsernameArgs_p003 :
           LET s == Started(signPreRegistrationUsername_p003(a))
           IN  /\ cur' = [method |-> "signPreRegistrationUsername_p003", args |-> a]
               /\ pc' = s.pc
               /\ requests' = s.requests
               /\ outcome' = s.outcome
    /\ nInv' = nInv + 1
    /\ UNCHANGED <<locale, canonVars, builder, other, utils, writes, prev>>

InvokeSignRegistrationUsername_p003 ==
    /\ pc = "idle"
    /\ \E a \in SignRegistrationUsernameArgs_p003 :
           LET s == Started(signRegistrationUsername_p003(a))
           IN  /\ cur' = [method |-> "signRegistrationUsername_p003", args |-> a]
               /\ pc' = s.pc
               /\ requests' = s.requests
               /\ outcome' = s.outcome
    /\ nInv' = nInv + 1
    /\ UNCHANGED <<locale, canonVars, builder, other, utils, writes, prev>>

InvokeSignMakeOffer_p003 ==
    /\ pc = "idle"
    /\ \E a \in SignMakeOfferArgs_p003 :
           LET s == Started(signMakeOffer_p003(a))
           IN  /\ cur' = [method |-> "signMakeOffer_p003", args |-> a]
               /\ pc' = s.pc
               /\ requests' = s.requests
               /\ outcome' = s.outcome
    /\ nInv' = nInv + 1
    /\ UNCHANGED <<locale, canonVars, builder, other, utils, writes, prev>>

InvokeSignWithdrawOffer_p003 ==
    /\ pc = "idle"
    /\ \E a \in SignWithdrawOfferArgs_p003 :
           LET s == Started(signWithdrawOffer_p003(a))
           IN  /\ cur' = [method |-> "signWithdrawOffer_p003", args |-> a]
               /\ pc' = s.pc
               /\ requests' = s.requests
               /\ outcome' = s.outcome
    /\ nInv' = nInv + 1
    /\ UNCHANGED <<locale, canonVars, builder, other, utils, writes, prev>>

InvokeSignAcceptOffer_p003 ==
    /\ pc = "idle"
    /\ \E a \in SignAcceptOfferArgs_p003 :
           LET s == Started(signAcceptOffer_p003(a))
           IN  /\ cur' = [method |-> "signAcceptOffer_p003", args |-> a]
               /\ pc' = s.pc
               /\ requests' = s.requests
               /\ outcome' = s.outcome
    /\ nInv' = nInv + 1
    /\ UNCHANGED <<locale, canonVars, builder, other, utils, writes, prev>>

InvokeSignRenewUsername_p003 ==
    /\ pc = "idle"
    /\ \E a \in SignRenewUsernameArgs_p003 :
           LET s == Started(signRenewUsername_p003(a))
           IN  /\ cur' = [method |-> "signRenewUsername_p003", args |-> a]
               /\ pc' = s.pc
               /\ requests' = s.requests
               /\ outcome' = s.outcome
    /\ nInv' = nInv + 1
    /\ UNCHANGED <<locale, canonVars, builder, other, utils, writes, prev>>

InvokeSignAddCustomMetadata_p003 ==
    /\ pc = "idle"
    /\ \E a \in SignAddCustomMetadataArgs_p003 :
           LET s == Started(signAddCustomMetadata_p003(a))
           IN  /\ cur' = [method |-> "signAddCustomMetadata_p003", args |-> a]
               /\ pc' = s.pc
               /\ requests' = s.requests
               /\ outcome' = s.outcome
    /\ nInv' = nInv + 1
    /\ UNCHANGED <<locale, canonVars, builder, other, utils, writes, prev>>

InvokeSignRemoveCustomMetadata_p003 ==
    /\ pc = "idle"
    /\ \E a \in SignRemoveCustomMetadataArgs_p003 :
           LET s == Started(signRemoveCustomMetadata_p003(a))
           IN  /\ cur' = [method |-> "signRemoveCustomMetadata_p003", args |-> a]
               /\ pc' = s.pc
               /\ requests' = s.requests
               /\ outcome' = s.outcome
    /\ nInv' = nInv + 1
    /\ UNCHANGED <<locale, canonVars, builder, other, utils, writes, prev>>

InvokeSignFlushCustomMetadata_p003 ==
    /\ pc = "idle"
    /\ \E a \in SignFlushCustomMetadataArgs_p003 :
           LET s == Started(signFlushCustomMetadata_p003(a))
           IN  /\ cur' = [method |-> "signFlushCustomMetadata_p003", args |-> a]
               /\ pc' = s.pc
               /\ requests' = s.requests
               /\ outcome' = s.outcome
    /\ nInv' = nInv + 1
    /\ UNCHANGED <<locale, canonVars, builder, other, utils, writes, prev>>

InvokeSignFlushUsername_p003 ==
    /\ pc = "idle"
    /\ \E a \in SignFlushUsernameArgs_p003 :
           LET s == Started(signFlushUsername_p003(a))
           IN  /\ cur' = [method |-> "signFlushUsername_p003", args |-> a]
               /\ pc' = s.pc
               /\ requests' = s.requests
               /\ outcome' = s.outcome
    /\ nInv' = nInv + 1
    /\ UNCHANGED <<locale, canonVars, builder, other, utils, writes, prev>>

InvokeSignGenericMessage ==
    /\ pc = "idle"
    /\ \E a \in SignGenericMessageArgs :
           LET s == Started(signGenericMessage(a))
           IN  /\ cur' = [method |-> "signGenericMessage", args |-> a]
               /\ pc' = s.pc
               /\ requests' = s.requests
               /\ outcome' = s.outcome
    /\ nInv' = nInv + 1
    /\ UNCHANGED <<locale, canonVars, builder, other, utils, writes, prev>>

InvokeSignGenericMessage_p005 ==
    /\ pc = "idle"
    /\ \E a \in SignGenericMessageArgs_p005 :
           LET s == Started(signGenericMessage_p005(a))
           IN  /\ cur' = [method |-> "signGenericMessage_p005", args |-> a]
               /\ pc' = s.pc
               /\ requests' = s.requests
               /\ outcome' = s.outcome
    /\ nInv' = nInv + 1
    /\ UNCHANGED <<locale, canonVars, builder, other, utils, writes, prev>>

InvokeSignERC191Message ==
    /\ pc = "idle"
    /\ \E a \in SignERC191MessageArgs :
           LET s == Started(signMessageDirect(a))
           IN  /\ cur' = [method |-> "signERC191Message", args |-> a]
               /\ pc' = s.pc
               /\ requests' = s.requests
               /\ outcome' = s.outcome
    /\ nInv' = nInv + 1
    /\ UNCHANGED <<locale, canonVars, builder, other, utils, writes, prev>>

InvokeExecutePay ==
    /\ pc = "idle"
    /\ \E d \in PayInputDatas, t \in ContractTargets :
           LET c == [method |-> "executePay", args |-> [inputData |-> d, address |-> t]]
               s == Submitted(c)
           IN  /\ cur' = c
               /\ pc' = s.pc
               /\ writes' = s.writes
               /\ outcome' = s.outcome
    /\ nInv' = nInv + 1
    /\ UNCHANGED <<locale, canonVars, builder, other, utils, requests, prev>>

InvokeExecuteDispersePay ==
    /\ pc = "idle"
    /\ \E d \in DispersePayInputDatas, t \in ContractTargets :
           LET c == [method |-> "executeDispersePay", args |-> [inputData |-> d, address |-> t]]
               s == Submitted(c)
           IN  /\ cur' = c
               /\ pc' = s.pc
               /\ writes' = s.writes
               /\ outcome' = s.outcome
    /\ nInv' = nInv + 1
    /\ UNCHANGED <<locale, canonVars, builder, other, utils, requests, prev>>

InvokeExecuteGoldenStaking ==
    /\ pc = "idle"
    /\ \E d \in GoldenStakingInputDatas, t \in ContractTargets :
           LET c == [method |-> "executeGoldenStaking", args |-> [inputData |-> d, address |-> t]]
               s == Submitted(c)
           IN  /\ cur' = c
               /\ pc' = s.pc
               /\ writes' = s.writes
               /\ outcome' = s.outcome
    /\ nInv' = nInv + 1
    /\ UNCHANGED <<locale, canonVars, builder, other, utils, requests, prev>>

InvokeExecutePresaleStaking ==
    /\ pc = "idle"
    /\ \E d \in PresaleStakingInputDatas, t \in ContractTargets :
           LET c == [method |-> "executePresaleStaking", args |-> [inputData |-> d, address |-> t]]
               s == Submitted(c)
           IN  /\ cur' = c
               /\ pc' = s.pc
               /\ writes' = s.writes
               /\ outcome' = s.outcome
    /\ nInv' = nInv + 1
    /\ UNCHANGED <<locale, canonVars, builder, other, utils, requests, prev>>

InvokeExecutePublicStaking ==
    /\ pc = "idle"
    /\ \E d \in PublicStakingInputDatas, t \in ContractTargets :
           LET c == [method |-> "executePublicStaking", args |-> [inputData |-> d, address |-> t]]
               s == Submitted(c)
           IN  /\ cur' = c
               /\ pc' = s.pc
               /\ writes' = s.writes
               /\ outcome' = s.outcome
    /\ nInv' = nInv + 1
    /\ UNCHANGED <<locale, canonVars, builder, other, utils, requests, prev>>

InvokeExecutePublicServiceStaking ==
    /\ pc = "idle"
    /\ \E d \in PublicServiceStakingInputDatas, t \in ContractTargets :
           LET c == [method |-> "executePublicServiceStaking", args |-> [inputData |-> d, address |-> t]]
               s == Submitted(c)
           IN  /\ cur' = c
               /\ pc' = s.pc
               /\ writes' = s.writes
               /\ outcome' = s.outcome
    /\ nInv' = nInv + 1
    /\ UNCHANGED <<locale, canonVars, builder, other, utils, requests, prev>>

InvokeExecutePreRegistrationUsername ==
    /\ pc = "idle"
    /\ \E d \in PreRegistrationUsernameInputDatas, t \in ContractTargets :
           LET c == [method |-> "executePreRegistrationUsername", args |-> [inputData |-> d, address |-> t]]
               s == Submitted(c)
           IN  /\ cur' = c
               /\ pc' = s.pc
               /\ writes' = s.writes
               /\ outcome' = s.outcome
    /\ nInv' = nInv + 1
    /\ UNCHANGED <<locale, canonVars, builder, other, utils, requests, prev>>

InvokeExecuteRegistrationUsername ==
    /\ pc = "idle"
    /\ \E d \in RegistrationUsernameInputDatas, t \in ContractTargets :
           LET c == [method |-> "executeRegistrationUsername", args |-> [inputData |-> d, address |-> t]]
               s == Submitted(c)
           IN  /\ cur' = c
               /\ pc' = s.pc
               /\ writes' = s.writes
               /\ outcome' = s.outcome
    /\ nInv' = nInv + 1
    /\ UNCHANGED <<locale, canonVars, builder, other, utils, requests, prev>>

InvokeExecutePayMultiple ==
    /\ pc = "idle"
    /\ \E d \in PayInputDataLists, t \in ContractTargets :
           LET c == [method |-> "executePayMultiple", args |-> [inputData |-> d, address |-> t]]
               s == Submitted(c)
           IN  /\ cur' = c
               /\ pc' = s.pc
               /\ writes' = s.writes
               /\ outcome' = s.outcome
    /\ nInv' = nInv + 1
    /\ UNCHANGED <<locale, canonVars, builder, other, utils, requests, prev>>

\* the caller invokes the same builder method again with the same inputs
InvokeAgain ==
    /\ pc = "done"
    /\ cur.method \in BuilderMethods
    /\ nInv < MaxInvocations
    /\ prev' = [cur |-> cur, requests |-> requests, writes |-> writes, outcome |-> outcome]
    /\ LET s == Started(Plan(cur))
       IN  /\ pc' = s.pc
           /\ requests' = s.requests
           /\ outcome' = s.outcome
    /\ nInv' = nInv + 1
    /\ UNCHANGED <<locale, canonVars, builder, other, utils, cur, writes>>

\* the caller invokes the same executor method again with the same inputs
ExecuteAgain ==
    /\ pc = "done"
    /\ cur.method \in ExecutorMethods
    /\ nInv < MaxInvocations
    /\ prev' = [cur |-> cur, requests |-> requests, writes |-> writes, outcome |-> outcome]
    /\ LET s == Submitted(cur)
       IN  /\ pc' = s.pc
           /\ writes' = s.writes
           /\ outcome' = s.outcome
    /\ nInv' = nInv + 1
    /\ UNCHANGED <<locale, canonVars, builder, other, utils, cur, requests>>

\* the wallet resolves the pending signMessage request with a signature
WalletResolves ==
    /\ pc \in {"awaitAction", "awaitPay"}
    /\ \E sig \in Signatures :
           LET n == Len(requests)
               s == Continued(Plan(cur), [requests EXCEPT ![n].reply = Resolved([signature |-> sig])])
           IN  /\ pc' = s.pc
               /\ requests' = s.requests
               /\ outcome' = s.outcome
    /\ UNCHANGED <<locale, canonVars, builder, other, utils, cur, writes, prev, nInv>>

\* the wallet rejects the pending signMessage request
WalletRejects ==
    /\ pc \in {"awaitAction", "awaitPay"}
    /\ \E e \in WalletErrors :
           LET n == Len(requests)
               s == Continued(Plan(cur), [requests EXCEPT ![n].reply = Rejected(e)])
           IN  /\ pc' = s.pc
               /\ requests' = s.requests
               /\ outcome' = s.outcome
    /\ UNCHANGED <<locale, canonVars, builder, other, utils, cur, writes, prev, nInv>>

\* writeContract resolves with the transaction hash
ChainResolves ==
    /\ pc = "awaitWrite"
    /\ \E h \in TxHashes :
           LET reply == Resolved([hash |-> h])
           IN  /\ writes' = [writes EXCEPT ![Len(writes)].reply = reply]
               /\ outcome' = Returned(reply)
    /\ pc' = "done"
    /\ UNCHANGED <<locale, canonVars, builder, other, utils, cur, requests, prev, nInv>>

\* writeContract rejects: revert, gas, network
ChainRejects ==
    /\ pc = "awaitWrite"
    /\ \E e \in ChainErrors :
           LET reply == Rejected(e)
           IN  /\ writes' = [writes EXCEPT ![Len(writes)].reply = reply]
               /\ outcome' = Returned(reply)
    /\ pc' = "done"
    /\ UNCHANGED <<locale, canonVars, builder, other, utils, cur, requests, prev, nInv>>

NextClient ==
    \/ InvokeSignPay
    \/ InvokeSignDispersePay
    \/ InvokeSignGoldenStaking
    \/ InvokeSignPresaleStaking
    \/ InvokeSignPublicStaking
    \/ InvokeSignPreRegistrationUsername_p002
    \/ InvokeSignRegistrationUsername_p002
    \/ InvokeSignMakeOffer_p002
    \/ InvokeSignWithdrawOffer_p002
    \/ InvokeSignAcceptOffer_p002
    \/ InvokeSignRenewUsername_p002
    \/ InvokeSignAddCustomMetadata_p002
    \/ InvokeSignRemoveCustomMetadata_p002
    \/ InvokeSignFlushCustomMetadata_p002
    \/ InvokeSignFlushUsername_p002
    \/ InvokeSignPreRegistrationUsername_p003
    \/ InvokeSignRegistrationUsername_p003
    \/ InvokeSignMakeOffer_p003
    \/ InvokeSignWithdrawOffer_p003
    \/ InvokeSignAcceptOffer_p003
    \/ InvokeSignRenewUsername_p003
    \/ InvokeSignAddCustomMetadata_p003
    \/ InvokeSignRemoveCustomMetadata_p003
    \/ InvokeSignFlushCustomMetadata_p003
    \/ InvokeSignFlushUsername_p003
    \/ InvokeSignGenericMessage
    \/ InvokeSignGenericMessage_p005
    \/ InvokeSignERC191Message
    \/ InvokeExecutePay
    \/ InvokeExecuteDispersePay
    \/ InvokeExecuteGoldenStaking
    \/ InvokeExecutePresaleStaking
    \/ InvokeExecutePublicStaking
    \/ InvokeExecutePublicServiceStaking
    \/ InvokeExecutePreRegistrationUsername
    \/ InvokeExecuteRegistrationUsername
    \/ InvokeExecutePayMultiple
    \/ InvokeAgain
    \/ ExecuteAgain
    \/ WalletResolves
    \/ WalletRejects
    \/ ChainResolves
    \/ ChainRejects

SpecClient == InitClient /\ [][NextClient]_vars

(***************************************************************************)
(* Two invocations on one builder instance.  An async method gives up      *)
(* control at each await, so a second method of the same instance may be   *)
(* called, and may run to its own await, while the first one waits for the *)
(* wallet; the wallet settles the pending requests in any order.  Each     *)
(* invocation has its own parameters and local constants (cur, requests;   *)
(* other.cur, other.requests); the instance's fields are in builder.       *)
(***************************************************************************)
StakingMethods == {"signGoldenStaking", "signPresaleStaking", "signPublicStaking"}

InterleavedInvocations ==
    {[method |-> "signGoldenStaking", args |-> a] : a \in {x \in SignGoldenStakingArgs : x.totalPrice = 7 /\ IsString(x.stakingAddress)}}
    \cup {[method |-> "signPresaleStaking", args |-> a] : a \in {x \in SignPresaleStakingArgs : x.isStaking /\ x.totalPrice = 7 /\ x.priorityFee_EVVM = 1000}}
    \cup {[method |-> "signPublicStaking", args |-> a] : a \in {x \in SignPublicStakingArgs : x.isStaking /\ x.totalPrice = 7 /\ x.priorityFee = 0}}
    \cup {[method |-> "signPreRegistrationUsername_p003", args |-> a] : a \in SignPreRegistrationUsernameArgs_p003}
    \cup {[method |-> "signMakeOffer_p003", args |-> a] : a \in {x \in SignMakeOfferArgs_p003 : x.amount = 7 /\ x.priorityFee_EVVM = 1000}}

\* both methods belong to the class of the one instance
SameClass(m1, m2) == (m1 \in StakingMethods) <=> (m2 \in StakingMethods)

InitInterleaved == InitClient

InvokeFirst ==
    /\ pc = "idle"
    /\ \E c \in InterleavedInvocations :
           LET s == Started(Plan(c))
           IN  /\ cur' = c
               /\ pc' = s.pc
               /\ requests' = s.requests
               /\ outcome' = s.outcome
    /\ nInv' = nInv + 1
    /\ UNCHANGED <<locale, canonVars, builder, other, utils, writes, prev>>

\* the second call: made once the first has reached an await or has ended
InvokeSecond ==
    /\ pc # "idle"
    /\ other.pc = "idle"
    /\ \E c \in InterleavedInvocations :
           /\ SameClass(cur.method, c.method)
           /\ LET s == Started(Plan(c))
              IN  other' = [cur |-> c, pc |-> s.pc, requests |-> s.requests, outcome |-> s.outcome]
    /\ nInv' = nInv + 1
    /\ UNCHANGED <<locale, canonVars, builder, utils, cur, pc, requests, writes, outcome, prev>>

FirstResolves ==
    /\ pc \in {"awaitAction", "awaitPay"}
    /\ \E sig \in Signatures :
           LET n == Len(requests)
               s == Continued(Plan(cur), [requests EXCEPT ![n].reply = Resolved([signature |-> sig])])
           IN  /\ pc' = s.pc
               /\ requests' = s.requests
               /\ outcome' = s.outcome
    /\ UNCHANGED <<locale, canonVars, builder, other, utils, cur, writes, prev, nInv>>

FirstRejects ==
    /\ pc \in {"awaitAction", "awaitPay"}
    /\ \E e \in WalletErrors :
           LET n == Len(requests)
               s == Continued(Plan(cur), [requests EXCEPT ![n].reply = Rejected(e)])
           IN  /\ pc' = s.pc
               /\ requests' = s.requests
               /\ outcome' = s.outcome
    /\ UNCHANGED <<locale, canonVars, builder, other, utils, cur, writes, prev, nInv>>

SecondResolves ==
    /\ other.pc \in {"awaitAction", "awaitPay"}
    /\ \E sig \in Signatures :
           LET n == Len(other.requests)
               s == Continued(Plan(other.cur), [other.requests EXCEPT ![n].reply = Resolved([signature |-> sig])])
           IN  other' = [cur |-> other.cur, pc |-> s.pc, requests |-> s.requests, outcome |-> s.outcome]
    /\ UNCHANGED <<locale, canonVars, builder, utils, cur, pc, requests, writes, outcome, prev, nInv>>

SecondRejects ==
    /\ other.pc \in {"awaitAction", "awaitPay"}
    /\ \E e \in WalletErrors :
           LET n == Len(other.requests)
               s == Continued(Plan(other.cur), [other.requests EXCEPT ![n].reply = Rejected(e)])
           IN  other' = [cur |-> other.cur, pc |-> s.pc, requests |-> s.requests, outcome |-> s.outcome]
    /\ UNCHANGED <<locale, canonVars, builder, utils, cur, pc, requests, writes, outcome, prev, nInv>>

NextInterleaved ==
    \/ InvokeFirst
    \/ InvokeSecond
    \/ FirstResolves
    \/ FirstRejects
    \/ SecondResolves
    \/ SecondRejects

SpecInterleaved == InitInterleaved /\ [][NextInterleaved]_vars

(***************************************************************************)
(* Vocabulary of the properties.                                           *)
(***************************************************************************)
Called == phase \in {"called", "repeated"}

RECURSIVE JoinComma(_)
JoinComma(fields) ==
    IF Len(fields) = 0 THEN <<>>
    ELSE IF Len(fields) = 1 THEN fields[1]
    ELSE fields[1] \o <<",">> \o JoinComma(Tail(fields))

\* the comma-separated fields of a message
RECURSIVE SplitComma(_)
SplitComma(m) ==
    IF \A i \in 1..Len(m) : m[i] # "," THEN <<m>>
    ELSE LET k == CHOOSE i \in 1..Len(m) :
                      /\ m[i] = ","
                      /\ \A j \in 1..(i - 1) : m[j] # ","
         IN  <<SubSeq(m, 1, k - 1)>> \o SplitComma(SubSeq(m, k + 1, Len(m)))

HexDigits == {"0", "1", "2", "3", "4", "5", "6", "7", "8", "9",
              "a", "b", "c", "d", "e", "f", "A", "B", "C", "D", "E", "F"}

\* a string value that reads 0x followed by hex digits
IsHexAddress(v) ==
    /\ v.typ = "string"
    /\ Len(v.str) > 2
    /\ SubSeq(v.str, 1, 2) = <<"0", "x">>
    /\ \A i \in 3..Len(v.str) : v.str[i] \in HexDigits

\* a plain decimal digit string: digits only, no leading zero, denoting n
RECURSIVE DigitsValue(_)
DigitsValue(d) ==
    IF Len(d) = 0 THEN 0
    ELSE 10 * DigitsValue(SubSeq(d, 1, Len(d) - 1))
         + ((CHOOSE k \in 1..10 : DigitChars[k] = d[Len(d)]) - 1)

IsPlainDecimalOf(d, n) ==
    /\ Len(d) >= 1
    /\ \A i \in 1..Len(d) : \E k \in 1..10 : DigitChars[k] = d[i]
    /\ (Len(d) > 1 => d[1] # "0")
    /\ DigitsValue(d) = n

PaySelector == <<"e", "f", "8", "3", "c", "1", "d", "6">>
ActionSelector == <<"e", "9", "1", "b", "3", "f", "9", "4">>
TrueFalse(b) == IF b THEN <<"t", "r", "u", "e">> ELSE <<"f", "a", "l", "s", "e">>

(***************************************************************************)
(* C1: for a hex-address recipient, buildMessageSignedForPay returns       *)
(* exactly "ef83c1d6", the decimal evvmID, the lowercased recipient, the   *)
(* lowercased token, the decimal amount, priority fee and nonce,           *)
(* "true"/"false" and the lowercased executor, joined by commas.           *)
(***************************************************************************)
C1_PayMessageExact ==
    (/\ Called
     /\ obs.op = "pay"
     /\ IsHexAddress(obs.args.to)
     /\ IsString(obs.args.tokenAddress)
     /\ IsString(obs.args.executor))
    => obs.result =
         Ok(JoinComma(<<PaySelector,
                        toString(obs.args.evvmID),
                        toLowerCase(obs.args.to.str),
                        toLowerCase(obs.args.tokenAddress.str),
                        toString(obs.args.amount),
                        toString(obs.args.priorityFee),
                        toString(obs.args.nonce),
                        TrueFalse(obs.args.priorityFlag),
                        toLowerCase(obs.args.executor.str)>>))

\* the fixed literal name of each operation
OperationName(op) ==
    CASE op = "pay" -> <<"p", "a", "y">>
      [] op = "dispersePay" -> <<"d", "i", "s", "p", "e", "r", "s", "e", "P", "a", "y">>
      [] op = "publicStaking" -> <<"p", "u", "b", "l", "i", "c", "S", "t", "a", "k", "i", "n", "g">>
      [] op = "presaleStaking" -> <<"p", "r", "e", "s", "a", "l", "e", "S", "t", "a", "k", "i", "n", "g">>
      [] op = "publicServiceStaking" -> <<"p", "u", "b", "l", "i", "c", "S", "e", "r", "v", "i", "c", "e", "S", "t", "a", "k", "i", "n", "g">>
      [] op = "preRegistrationUsername" -> <<"p", "r", "e", "R", "e", "g", "i", "s", "t", "r", "a", "t", "i", "o", "n", "U", "s", "e", "r", "n", "a", "m", "e">>
      [] op = "registrationUsername" -> <<"r", "e", "g", "i", "s", "t", "r", "a", "t", "i", "o", "n", "U", "s", "e", "r", "n", "a", "m", "e">>
      [] op = "makeOffer" -> <<"m", "a", "k", "e", "O", "f", "f", "e", "r">>
      [] op = "withdrawOffer" -> <<"w", "i", "t", "h", "d", "r", "a", "w", "O", "f", "f", "e", "r">>
      [] op = "acceptOffer" -> <<"a", "c", "c", "e", "p", "t", "O", "f", "f", "e", "r">>
      [] op = "renewUsername" -> <<"r", "e", "n", "e", "w", "U", "s", "e", "r", "n", "a", "m", "e">>
      [] op = "addCustomMetadata" -> <<"a", "d", "d", "C", "u", "s", "t", "o", "m", "M", "e", "t", "a", "d", "a", "t", "a">>
      [] op = "removeCustomMetadata" -> <<"r", "e", "m", "o", "v", "e", "C", "u", "s", "t", "o", "m", "M", "e", "t", "a", "d", "a", "t", "a">>
      [] op = "flushCustomMetadata" -> <<"f", "l", "u", "s", "h", "C", "u", "s", "t", "o", "m", "M", "e", "t", "a", "d", "a", "t", "a">>
      [] op = "flushUsername" -> <<"f", "l", "u", "s", "h", "U", "s", "e", "r", "n", "a", "m", "e">>

(***************************************************************************)
(* C2: for every operation-specific canonicalizer and every input, the     *)
(* returned message is the decimal chain id, a comma, the operation's      *)
(* fixed literal name, a comma, and then the operation's fields.           *)
(***************************************************************************)
C2_ChainIdThenOperationName ==
    (Called /\ obs.op \in Ops /\ obs.result.kind = "ok")
    => startsWith(obs.result.msg,
                  toString(obs.args.evvmID) \o <<",">>
                      \o OperationName(obs.op) \o <<",">>)

(***************************************************************************)
(* C3: buildMessageSignedForPublicStaking returns exactly                  *)
(* "e91b3f94,<evvmID>,<true|false>,<amount>,<nonce>", integers in plain    *)
(* decimal.                                                                *)
(***************************************************************************)
C3_PublicStakingExact ==
    (Called /\ obs.op = "publicStaking")
    => obs.result =
         Ok(JoinComma(<<ActionSelector,
                        toString(obs.args.evvmID),
                        TrueFalse(obs.args.isStaking),
                        toString(obs.args.amountOfSMate),
                        toString(obs.args.nonce)>>))

(***************************************************************************)
(* C4: buildMessageSignedForPresaleStaking renders the amount and the      *)
(* nonce as plain decimal digit strings with no thousands separators, for  *)
(* values of 1000 and above too, and the message always has the same       *)
(* number of comma-separated fields (five).                                *)
(***************************************************************************)
C4_PresalePlainDecimal ==
    (Called /\ obs.op = "presaleStaking")
    => /\ obs.result.kind = "ok"
       /\ Len(SplitComma(obs.result.msg)) = 5
       /\ IsPlainDecimalOf(SplitComma(obs.result.msg)[4], obs.args.amountOfSMate)
       /\ IsPlainDecimalOf(SplitComma(obs.result.msg)[5], obs.args.nonce)

(***************************************************************************)
(* C5: buildMessageSignedForRegistrationUsername returns exactly           *)
(* "e91b3f94,<evvmID>,<username unmodified>,<clowNumber>,<nonce>".         *)
(***************************************************************************)
C5_RegistrationUsernameExact ==
    (Called /\ obs.op = "registrationUsername")
    => obs.result =
         Ok(JoinComma(<<ActionSelector,
                        toString(obs.args.evvmID),
                        obs.args.username,
                        toString(obs.args.clowNumber),
                        toString(obs.args.nonce)>>))

(***************************************************************************)
(* C6: buildMessageSignedForDispersePay returns "ef83c1d6,<evvmID>,        *)
(* <hashList>,<token lowercased>,<amount>,<priorityFee>,<nonce>,           *)
(* <true|false>,<executor lowercased>", the digest character for character *)
(* as it was passed in.                                                    *)
(***************************************************************************)
C6_DispersePayDigestAsPassed ==
    (/\ Called
     /\ obs.op = "dispersePay"
     /\ IsString(obs.args.tokenAddress)
     /\ IsString(obs.args.executor))
    => obs.result =
         Ok(JoinComma(<<PaySelector,
                        toString(obs.args.evvmID),
                        obs.args.hashList,
                        toLowerCase(obs.args.tokenAddress.str),
                        toString(obs.args.amount),
                        toString(obs.args.priorityFee),
                        toString(obs.args.nonce),
                        TrueFalse(obs.args.priorityFlag),
                        toLowerCase(obs.args.executor.str)>>))

(***************************************************************************)
(* C7: buildMessageSignedForPreRegistrationUsername returns                *)
(* "e91b3f94,<evvmID>,<hash>,<nonce>", the hash character for character as *)
(* it was passed in.                                                       *)
(***************************************************************************)
C7_PreRegistrationHashAsPassed ==
    (Called /\ obs.op = "preRegistrationUsername")
    => obs.result =
         Ok(JoinComma(<<ActionSelector,
                        toString(obs.args.evvmID),
                        obs.args.hashUsername,
                        toString(obs.args.nonce)>>))

(***************************************************************************)
(* C8: buildMessageSignedForPublicServiceStake returns exactly             *)
(* "e91b3f94,<evvmID>,<serviceAddress lowercased>,<true|false>,<amount>,   *)
(* <nonce>".                                                               *)
(***************************************************************************)
C8_PublicServiceStakeExact ==
    (Called /\ obs.op = "publicServiceStaking" /\ IsString(obs.args.serviceAddress))
    => obs.result =
         Ok(JoinComma(<<ActionSelector,
                        toString(obs.args.evvmID),
                        toLowerCase(obs.args.serviceAddress.str),
                        TrueFalse(obs.args.isStaking),
                        toString(obs.args.amountOfSMate),
                        toString(obs.args.nonce)>>))

(***************************************************************************)
(* Address-valued parameters and their spellings that differ only in case. *)
(***************************************************************************)
AddressParams(op) ==
    CASE op = "pay" -> {"to", "tokenAddress", "executor"}
      [] op = "dispersePay" -> {"tokenAddress", "executor"}
      [] op = "publicServiceStaking" -> {"serviceAddress"}
      [] op = "depositFisher" -> {"receiverAddress", "tokenAddress"}
      [] OTHER -> {}

RECURSIVE CaseVariants(_)
CaseVariants(str) ==
    IF Len(str) = 0 THEN {<<>>}
    ELSE {<<c>> \o t : c \in {LowerChar(Head(str)), UpperChar(Head(str))},
                       t \in CaseVariants(Tail(str))}

\* 0x or 0X followed by hex digits
IsHexAddressAnyPrefix(v) ==
    /\ v.typ = "string"
    /\ Len(v.str) > 2
    /\ v.str[1] = "0"
    /\ v.str[2] \in {"x", "X"}
    /\ \A i \in 3..Len(v.str) : v.str[i] \in HexDigits

\* the observed call made again with parameter p spelled v
WithSpelling(p, v) ==
    Apply(obs.file, obs.op, [obs.args EXCEPT ![p] = Str(v)])

(***************************************************************************)
(* C9 as stated: for every canonicalizer and every address-valued          *)
(* parameter (pay recipient, token, executor, service address), two inputs *)
(* that differ only in the case of the hex letters of that address, the    *)
(* case of the 0x/0X prefix included, produce identical messages.          *)
(***************************************************************************)
C9_CaseInsensitiveIncludingPrefix ==
    (Called /\ obs.result.kind = "ok")
    => \A p \in AddressParams(obs.op) :
           IsHexAddressAnyPrefix(obs.args[p])
           => \A v \in CaseVariants(obs.args[p].str) :
                  WithSpelling(p, v) = obs.result

(***************************************************************************)
(* C9 amended: two inputs that differ only in the case of the hex letters  *)
(* of an address-valued parameter produce identical messages; for token,   *)
(* executor and service address the case of the 0x/0X prefix may differ    *)
(* too, for the pay recipient both inputs carry the lowercase prefix 0x.   *)
(***************************************************************************)
C9_CaseInsensitiveHexLetters ==
    (Called /\ obs.result.kind = "ok")
    => \A p \in AddressParams(obs.op) :
           /\ (p # "to" /\ IsHexAddressAnyPrefix(obs.args[p]))
              => \A v \in CaseVariants(obs.args[p].str) :
                     WithSpelling(p, v) = obs.result
           /\ (p = "to" /\ IsHexAddress(obs.args[p]))
              => \A v \in {w \in CaseVariants(obs.args[p].str) : IsHexAddress(Str(w))} :
                     WithSpelling(p, v) = obs.result

\* a pay message was built by constructMessage.ts for a recipient, a token and
\* an executor that all have other spellings
C9_Witness ==
    /\ Called
    /\ obs.file = "constructMessage.ts"
    /\ obs.op = "pay"
    /\ obs.result.kind = "ok"
    /\ IsHexAddress(obs.args.to)
    /\ \E v \in CaseVariants(obs.args.to.str) : v # obs.args.to.str /\ IsHexAddress(Str(v))
    /\ \E v \in CaseVariants(obs.args.tokenAddress.str) : v # obs.args.tokenAddress.str

Done == pc = "done"
IsBuilder == cur.method \in BuilderMethods
IsDual == cur.method \in DualMethods
IsExecutor == cur.method \in ExecutorMethods

\* the priority-fee input of a dual-signature invocation
FeeInput(c) == IF c.method = "signPublicStaking" THEN c.args.priorityFee ELSE c.args.priorityFee_EVVM

\* its price input: the input whose value the method puts into the pay message as the amount (0 if it has none)
PriceInput(c) ==
    CASE c.method \in {"signPresaleStaking", "signPublicStaking"} -> c.args.totalPrice
      [] c.method = "signRegistrationUsername_p003" -> c.args.mateReward
      [] c.method = "signMakeOffer_p003" -> c.args.amount
      [] c.method = "signRenewUsername_p003" -> c.args.amountToRenew
      [] c.method = "signAddCustomMetadata_p003" -> c.args.amountToAddCustomMetadata
      [] c.method = "signRemoveCustomMetadata_p003" -> c.args.amountToRemoveCustomMetadata
      [] c.method = "signFlushCustomMetadata_p003" -> c.args.priceToFlushCustomMetadata
      [] c.method = "signFlushUsername_p003" -> c.args.priceToFlushUsername
      [] OTHER -> 0

HasPaySignature == outcome.val.paySignature # "undefined"

\* C11: when all signing calls of a dual-signature method succeeded, the result
\* contains paySignature if and only if the priority-fee (or price) input is non-zero.
C11_PaySignatureIffFeeNonZero ==
    (Done /\ IsDual /\ outcome.kind = "resolved")
        => (HasPaySignature <=> (FeeInput(cur) # 0 \/ PriceInput(cur) # 0))

\* C12: whenever a dual-signature method requests a pay signature, the message it
\* sends for paySignature differs from the message it sent for actionSignature.
C12_PayMessageDiffersFromActionMessage ==
    IsDual => \A i \in 1..Len(requests) :
                  requests[i].role = "pay" => requests[i].msg # requests[1].msg

C12_Witness ==
    /\ Done
    /\ cur.method = "signMakeOffer_p003"
    /\ utils = "part_000"
    /\ Len(requests) = 2
    /\ requests[1].role = "action"
    /\ requests[2].role = "pay"
    /\ outcome.kind = "resolved"

InvalidRecipient(to) == ~IsString(to) \/ to.str = <<>>

\* C13: with a missing, undefined, empty or non-string recipient the pay
\* canonicalizer raises an error, and signPay rejects without calling signMessage.
C13_InvalidRecipientRejectedUnsigned ==
    (cur.method = "signPay" /\ InvalidRecipient(cur.args.to))
        => /\ signPay(cur.args).action.kind # "ok"
           /\ requests = <<>>
           /\ Done
           /\ outcome.kind = "rejected"

\* C14: if a signMessage call of a builder invocation rejects with error E, the
\* method's promise rejects with that same error E.
C14_WalletErrorPropagatesUnchanged ==
    IsBuilder => \A i \in 1..Len(requests) :
                     requests[i].reply.kind = "rejected"
                         => /\ Done
                            /\ outcome = Rejected(requests[i].reply.err)

C14_Witness ==
    /\ Done
    /\ cur.method = "signPresaleStaking"
    /\ Len(requests) = 2
    /\ requests[2].reply = Rejected("Disconnected")
    /\ outcome = Rejected("Disconnected")

\* C15: in a dual-signature method, if the action signing succeeds and the pay
\* signing rejects, the method rejects and returns no result object; if the action
\* signing rejects, no pay signing call is issued.
C15_NoPartialResult ==
    IsDual =>
        /\ (Len(requests) = 2 /\ requests[1].reply.kind = "resolved" /\ requests[2].reply.kind = "rejected")
               => (Done /\ outcome.kind = "rejected" /\ outcome.val = NoValue)
        /\ (Len(requests) >= 1 /\ requests[1].reply.kind = "rejected")
               => (Len(requests) = 1 /\ Done /\ outcome.kind = "rejected")

C15_Witness ==
    /\ Done
    /\ cur.method = "signWithdrawOffer_p003"
    /\ Len(requests) = 2
    /\ requests[1].reply.kind = "resolved"
    /\ requests[2].reply.kind = "rejected"
    /\ outcome.kind = "rejected"

RequestsWithRole(r) == {i \in 1..Len(requests) : requests[i].role = r}

\* C16: no retry.  Over any invocation a single-signature method issues exactly one
\* signMessage call, a dual-signature method at most one per message (at most two
\* in total), an executor method at most one writeContract call.
C16_ExactlyOnce ==
    /\ (Done /\ IsBuilder /\ ~IsDual) => Len(requests) = 1
    /\ IsDual => /\ Len(requests) <= 2
                 /\ Cardinality(RequestsWithRole("action")) <= 1
                 /\ Cardinality(RequestsWithRole("pay")) <= 1
    /\ IsExecutor => Len(writes) <= 1

\* C16 as the code has it: a single-signature method issues at most one signMessage
\* call, and exactly one unless its canonicalizer threw before signing (then none);
\* a dual-signature method at most one per message; an executor at most one
\* writeContract call.
C16_AtMostOnce ==
    /\ (IsBuilder /\ ~IsDual)
           => /\ Len(requests) <= 1
              /\ Done => (Len(requests) = 1 <=> outcome.err \notin {"Error", "TypeError"})
    /\ IsDual => /\ Len(requests) <= 2
                 /\ Cardinality(RequestsWithRole("action")) <= 1
                 /\ Cardinality(RequestsWithRole("pay")) <= 1
    /\ IsExecutor => Len(writes) <= 1

C16_Witness ==
    /\ Done
    /\ cur.method = "signPay"
    /\ Len(requests) = 1
    /\ requests[1].reply.kind = "rejected"
    /\ outcome.kind = "rejected"

\* the signatures the wallet gave to the requests of the current invocation
ActionSignatureGiven == requests[1].reply.val.signature
PaySignatureGiven == IF Len(requests) = 2 THEN requests[2].reply.val.signature ELSE "undefined"

\* C17: no caching.  An invocation with the inputs of an earlier one issues its
\* own signMessage requests and returns the signatures the wallet gave to them.
C17_FreshRequestEveryInvocation ==
    (Done /\ IsBuilder /\ nInv >= 2 /\ outcome.kind = "resolved")
        => /\ Len(requests) >= 1
           /\ \A i \in 1..Len(requests) : requests[i].reply.kind = "resolved"
           /\ IF IsDual
              THEN outcome.val = DualSignatureResult(PaySignatureGiven, ActionSignatureGiven)
              ELSE outcome.val = [signature |-> ActionSignatureGiven]

C17_Witness ==
    /\ Done
    /\ nInv = 2
    /\ cur.method = "signGenericMessage"
    /\ prev.cur = cur
    /\ prev.outcome = Resolved([signature |-> "0xsigA"])
    /\ outcome = Resolved([signature |-> "0xsigB"])
    /\ Len(requests) = 1

AbsentInput(c) ==
    \/ Falsy(c.args.inputData)
    \/ (c.method = "executePayMultiple" /\ Len(c.args.inputData.items) = 0)

AbiOf(name) ==
    CASE name = "EVVM_ABI" -> EVVM_ABI
      [] name = "STAKING_ABI" -> STAKING_ABI
      [] name = "NAMESERVICE_ABI" -> NAMESERVICE_ABI

AbiFunctionOf(method) ==
    CASE method = "executePay" -> "pay"
      [] method = "executeDispersePay" -> "dispersePay"
      [] method = "executePayMultiple" -> "payMultiple"
      [] method = "executeGoldenStaking" -> "goldenStaking"
      [] method = "executePresaleStaking" -> "presaleStaking"
      [] method = "executePublicStaking" -> "publicStaking"
      [] method = "executePublicServiceStaking" -> "publicServiceStaking"
      [] method = "executePreRegistrationUsername" -> "preRegistrationUsername"
      [] method = "executeRegistrationUsername" -> "registrationUsername"

\* C19: the function name passed to writeContract is the operation's ABI function,
\* and the args are, in number and order, the inputs that function declares in the
\* ABI passed in the same call; for payMultiple each tuple of the batch carries the
\* ABI tuple's components and the batch keeps the input list's length and order.
C19_ArgsFollowAbiOrder ==
    \A w \in 1..Len(writes) :
        LET call == writes[w].call
            fn == AbiOf(call.abi)[call.functionName]
            data == cur.args.inputData
        IN  /\ call.functionName = AbiFunctionOf(cur.method)
            /\ call.functionName \in DOMAIN AbiOf(call.abi)
            /\ Len(call.args) = Len(fn.inputs)
            /\ IF cur.method = "executePayMultiple"
               THEN /\ Len(call.args[1]) = Len(data.items)
                    /\ \A k \in 1..Len(data.items) :
                           /\ call.args[1][k].keys = fn.components
                           /\ \A j \in 1..Len(fn.components) :
                                  call.args[1][k].vals[j] = data.items[k][fn.components[j]]
               ELSE \A j \in 1..Len(fn.inputs) : call.args[j] = data[fn.inputs[j]]

C19_Witness ==
    /\ cur.method = "executePresaleStaking"
    /\ Len(writes) = 1
    /\ writes[1].call.args = <<1, 2, 3, 4, 5, 6, 7, 8>>

\* C20: with a present input record, if writeContract fails with error E the
\* executor's promise rejects with E, and if it succeeds with hash H the executor
\* resolves with H unchanged.
C20_ChainOutcomeUnchanged ==
    \A w \in 1..Len(writes) :
        /\ writes[w].reply.kind = "rejected" => (Done /\ outcome = Rejected(writes[w].reply.err))
        /\ writes[w].reply.kind = "resolved" => (Done /\ outcome = Resolved([hash |-> writes[w].reply.val.hash]))

C20_Witness ==
    /\ Done
    /\ cur.method = "executeGoldenStaking"
    /\ Len(writes) = 1
    /\ writes[1].reply = Rejected("Reverted")
    /\ outcome = Rejected("Reverted")

\* an error a canonicalizer throws on purpose: buildMessageSignedForPay's
\* "Invalid 'to' address passed to buildMessageSignedForPay"
ValidationError(e) == e = "Error"

\* C21: in every builder method a validation error is raised before any wallet
\* signMessage call of the invocation: no invocation issues a signing request and
\* afterwards fails with a validation error.
C21_ValidationBeforeSigning ==
    (IsBuilder /\ Done /\ outcome.kind = "rejected" /\ ValidationError(outcome.err))
        => requests = <<>>

\* values of an address-shaped field that are missing, empty or not a string
NotAString == [typ |-> "number", str |-> <<>>]
InvalidAddresses == {Undefined, Str(<<>>), NotAString}

\* the observed call made again with parameter p given the value v
WithValue(p, v) == Apply(obs.file, obs.op, [obs.args EXCEPT ![p] = v])

\* C22: every canonicalizer that takes an address-shaped field (pay's recipient,
\* token and executor; dispersePay's token and executor; publicServiceStaking's
\* service address) fails with the same kind of validation error when that field
\* is missing, empty or not a string.
C22_AddressFieldsValidatedUniformly ==
    (Called /\ obs.op \in {"pay", "dispersePay", "publicServiceStaking"})
        => \A p \in AddressParams(obs.op) :
               \A v \in InvalidAddresses :
                   ValidationError(WithValue(p, v).kind)

\* the canonical string the current invocation built for its i-th signing request
MessageBuilt(i) == IF i = 1 THEN Plan(cur).action.msg ELSE Plan(cur).payMessage.msg

\* C23: every signMessage request a builder issues carries the account given to
\* the builder at construction and, as message, exactly the canonical string built
\* for the operation; no method changes the builder's account or wallet reference.
C23_RequestCarriesAccountAndMessage ==
    /\ [](IsBuilder => \A i \in 1..Len(requests) :
                           /\ requests[i].account = builder.account
                           /\ requests[i].msg = MessageBuilt(i))
    /\ [][builder' = builder]_vars

C23_Witness ==
    /\ Done
    /\ cur.method = "signPublicStaking"
    /\ builder.account = "0xBob"
    /\ Len(requests) = 2
    /\ requests[1].account = "0xBob"
    /\ requests[2].account = "0xBob"
    /\ outcome.kind = "resolved"

\* the wallet's replies to the requests reqs, in order
Replies(reqs) == [i \in 1..Len(reqs) |-> reqs[i].reply]
Reply(replies, i) == IF i <= Len(replies) THEN replies[i] ELSE Pending

\* what an invocation with plan d issues and returns when it runs with no other
\* invocation in progress and the wallet answers its requests with replies
RunAlone(d, replies) ==
    LET first == [Request(IF d.returns = "pair" THEN "action" ELSE "message", d.action.msg) EXCEPT !.reply = Reply(replies, 1)]
        second == [Request("pay", d.payMessage.msg) EXCEPT !.reply = Reply(replies, 2)]
    IN  IF d.action.kind # "ok" THEN Step("done", <<>>, Rejected(d.action.kind))
        ELSE IF d.pay = "before" /\ d.payMessage.kind # "ok" THEN Step("done", <<>>, Rejected(d.payMessage.kind))
        ELSE IF first.reply.kind # "resolved" THEN Step("done", <<first>>, first.reply)
        ELSE IF d.returns = "signature" THEN Step("done", <<first>>, Resolved([signature |-> first.reply.val.signature]))
        ELSE IF d.pay = "none" THEN Step("done", <<first>>, Resolved(DualSignatureResult("undefined", first.reply.val.signature)))
        ELSE IF d.payMessage.kind # "ok" THEN Step("done", <<first>>, Rejected(d.payMessage.kind))
        ELSE IF second.reply.kind # "resolved" THEN Step("done", <<first, second>>, second.reply)
        ELSE Step("done", <<first, second>>, Resolved(DualSignatureResult(second.reply.val.signature, first.reply.val.signature)))

\* C24: two builder invocations interleaved at their await points on the same
\* instance do not interfere: what each one asks the wallet to sign and what it
\* returns (or rejects with) depends only on its own parameters and on the wallet's
\* answers to its own requests, and equals what it gives when run alone.
C24_InterleavedInvocationsIndependent ==
    /\ pc = "done"
           => Step(pc, requests, outcome) = RunAlone(Plan(cur), Replies(requests))
    /\ other.pc = "done"
           => Step(other.pc, other.requests, other.outcome) = RunAlone(Plan(other.cur), Replies(other.requests))

\* the second invocation started while the first waited for its action signature
\* and ended first; both were answered with different signatures
C24_Witness ==
    /\ pc = "done"
    /\ other.pc = "done"
    /\ cur.method = "signPresaleStaking"
    /\ other.cur.method = "signPublicStaking"
    /\ Len(requests) = 2
    /\ Len(other.requests) = 2
    /\ outcome = Resolved(DualSignatureResult("0xsigA", "0xsigA"))
    /\ other.outcome = Resolved(DualSignatureResult("0xsigB", "0xsigB"))

\* the fields of a pay message: its marker, and the positions after it
PayFields(m) == SplitComma(m)
PayShaped(f) ==
    /\ Len(f) = 9
    /\ IF utils = "part_000" THEN f[1] = PaySelector ELSE f[2] = <<"p", "a", "y">>
ChainIdField(f) == IF utils = "part_000" THEN f[2] ELSE f[1]

\* the inputs of a dual-signature invocation, under the names its method gives them
EvvmIDInput(c) == IF "evvmId" \in DOMAIN c.args THEN c.args.evvmId ELSE c.args.evvmID
ContractInput(c) == IF "stakingAddress" \in DOMAIN c.args THEN c.args.stakingAddress ELSE c.args.addressNameService
NonceEVVMInput(c) == IF "nonceEVVM" \in DOMAIN c.args THEN c.args.nonceEVVM ELSE c.args.nonce_EVVM
PriorityFlagInput(c) == IF "priorityFlag" \in DOMAIN c.args THEN c.args.priorityFlag ELSE c.args.priorityFlag_EVVM

\* C25: in every dual-signature builder method the companion payment message is a
\* pay-shaped canonical message whose recipient and executor fields both equal the
\* domain contract address passed to the method, lowercased, and whose chain id,
\* EVVM nonce and priority flag are the method's evvmID, nonce_EVVM and
\* priorityFlag_EVVM inputs.
C25_PayMessageTargetsDomainContract ==
    IsDual => \A i \in 1..Len(requests) :
                  requests[i].role = "pay"
                      => LET f == PayFields(requests[i].msg)
                         IN  /\ PayShaped(f)
                             /\ ChainIdField(f) = toString(EvvmIDInput(cur))
                             /\ f[3] = toLowerCase(ContractInput(cur).str)
                             /\ f[9] = toLowerCase(ContractInput(cur).str)
                             /\ f[7] = toString(NonceEVVMInput(cur))
                             /\ f[8] = TrueFalse(PriorityFlagInput(cur))

C25_Witness ==
    /\ Done
    /\ cur.method = "signMakeOffer_p003"
    /\ utils = "constructMessage.ts"
    /\ cur.args.addressNameService = Str(<<"0", "x", "a", "B">>)
    /\ Len(requests) = 2
    /\ requests[2].role = "pay"
    /\ PayFields(requests[2].msg)[3] = <<"0", "x", "a", "b">>
    /\ PayFields(requests[2].msg)[9] = <<"0", "x", "a", "b">>

\* C26: signGoldenStaking issues exactly one signing request and returns the bare
\* signature; the signed message is the pay message with recipient and executor
\* equal to stakingAddress, the token 0x0000000000000000000000000000000000000001,
\* amount totalPrice, priority fee 0, nonce nonceEVVM and the given priority flag;
\* no staking-action message is signed.
C26_GoldenStakingSignsOnePayMessage ==
    (cur.method = "signGoldenStaking" /\ IsString(cur.args.stakingAddress))
        => /\ Len(requests) = 1
           /\ requests[1].role = "message"
           /\ LET f == PayFields(requests[1].msg)
              IN  /\ PayShaped(f)
                  /\ ChainIdField(f) = toString(cur.args.evvmID)
                  /\ f[3] = toLowerCase(cur.args.stakingAddress.str)
                  /\ f[4] = NativeToken.str
                  /\ f[5] = toString(cur.args.totalPrice)
                  /\ f[6] = <<"0">>
                  /\ f[7] = toString(cur.args.nonceEVVM)
                  /\ f[8] = TrueFalse(cur.args.priorityFlag)
                  /\ f[9] = toLowerCase(cur.args.stakingAddress.str)
           /\ (Done /\ requests[1].reply.kind = "resolved")
                  => outcome = Resolved([signature |-> requests[1].reply.val.signature])

C26_Witness ==
    /\ Done
    /\ cur.method = "signGoldenStaking"
    /\ cur.args.totalPrice = 7
    /\ IsString(cur.args.stakingAddress)
    /\ Len(requests) = 1
    /\ outcome = Resolved([signature |-> "0xsigA"])

\* the free-text parameters of an operation: usernames, identities, metadata values
FreeTextParams(op) ==
    CASE op \in {"registrationUsername", "makeOffer", "withdrawOffer", "acceptOffer", "renewUsername", "flushUsername"} -> {"username"}
      [] op = "addCustomMetadata" -> {"identity", "value"}
      [] op \in {"removeCustomMetadata", "flushCustomMetadata"} -> {"identity"}
      [] OTHER -> {}

HasComma(str) == \E i \in 1..Len(str) : str[i] = ","
CommaFree(op, a) == \A p \in FreeTextParams(op) : ~HasComma(a[p])

\* the parameters whose letters a canonicalizer changes to one case
HashParams(op) ==
    CASE op = "dispersePay" -> {"hashList"}
      [] op = "preRegistrationUsername" -> {"hashUsername"}
      [] OTHER -> {}

\* two parameter tuples of op that differ at most in the letter case of the pay
\* recipient, of an address or of a digest
SameUpToCase(op, a, b) ==
    \A p \in DOMAIN a :
        IF p \in AddressParams(op)
        THEN a[p].typ = b[p].typ /\ toLowerCase(a[p].str) = toLowerCase(b[p].str)
        ELSE IF p \in HashParams(op) THEN toLowerCase(a[p]) = toLowerCase(b[p])
        ELSE a[p] = b[p]

\* the state a canonicalizer call leads to; obs keeps the call from then on
JustCalled == phase = "called" /\ nCalls = 1

\* the identity "a,b" with the value "c", against the identity "a" with the value "b,c"
CommaCollision ==
    (JustCalled /\ obs.op = "addCustomMetadata" /\ obs.args.identity = <<"a", ",", "b">> /\ obs.args.value = <<"c">>)
        => Apply(obs.file, obs.op, [obs.args EXCEPT !.identity = <<"a">>, !.value = <<"b", ",", "c">>]) = obs.result

PendingRequests == {i \in 1..Len(requests) : requests[i].reply.kind = "pending"}

\* C28: in every dual-signature builder method the wallet receives the action
\* message's signing request first, and the pay message's request is issued only
\* after the action signing call has resolved; the two requests are never in flight
\* at the same time and never issued in the opposite order.
C28_ActionSignedBeforePay ==
    IsDual =>
        /\ Len(requests) >= 1 => requests[1].role = "action"
        /\ \A i \in 1..Len(requests) :
               requests[i].role = "pay" => (i = 2 /\ requests[1].reply.kind = "resolved")
        /\ Cardinality(PendingRequests) <= 1

\* the pay request is in flight, the action request has been answered
C28_Witness ==
    /\ pc = "awaitPay"
    /\ cur.method = "signRegistrationUsername_p003"
    /\ Len(requests) = 2
    /\ requests[1].role = "action"
    /\ requests[1].reply.kind = "resolved"
    /\ requests[2].role = "pay"
    /\ requests[2].reply.kind = "pending"

\* C29: domain separation between operations.  For parameters with comma-free
\* free-text fields, the canonical message of one operation never equals the
\* canonical message of a different operation; in particular withdrawOffer and
\* acceptOffer with the same (evvmID, username, offerId, nonce), and publicStaking
\* and presaleStaking with the same (evvmID, isStaking, amount, nonce), yield
\* different messages.
C29_OperationsNeverShareMessage ==
    (JustCalled /\ obs.op \in Ops /\ obs.result.kind = "ok" /\ CommaFree(obs.op, obs.args))
        => \A op \in Ops \ {obs.op} :
               \A b \in ArgsOf(op) :
                   CommaFree(op, b) => Apply(obs.file, op, b) # obs.result

\* the staking action message the current invocation builds when isStaking is b
StakingMessageFor(b) == Plan([cur EXCEPT !.args.isStaking = b]).action.msg

\* C30: in signPresaleStaking and signPublicStaking the amount field of the
\* companion pay message equals totalPrice when isStaking is true and 0 when it is
\* false, the priority-fee field always equals the priority-fee input, and the
\* amount of the staking action message does not depend on isStaking.
C30_PayAmountFollowsIsStaking ==
    (cur.method \in {"signPresaleStaking", "signPublicStaking"} /\ Len(requests) >= 1)
        => /\ \A i \in 1..Len(requests) :
                  requests[i].role = "pay"
                      => LET f == PayFields(requests[i].msg)
                         IN  /\ f[5] = toString(IF cur.args.isStaking THEN cur.args.totalPrice ELSE 0)
                             /\ f[6] = toString(FeeInput(cur))
           /\ SplitComma(StakingMessageFor(TRUE))[4] = SplitComma(StakingMessageFor(FALSE))[4]
           /\ SplitComma(requests[1].msg)[4] = SplitComma(StakingMessageFor(~cur.args.isStaking))[4]

C30_Witness ==
    /\ Done
    /\ cur.method = "signPresaleStaking"
    /\ ~cur.args.isStaking
    /\ cur.args.totalPrice = 7
    /\ cur.args.priorityFee_EVVM = 1000
    /\ Len(requests) = 2
    /\ PayFields(requests[2].msg)[5] = <<"0">>
    /\ PayFields(requests[2].msg)[6] = <<"1", "0", "0", "0">>
    /\ outcome.kind = "resolved"

====
